---- MODULE Spec2Model ----
(***************************************************************************)
(* Automation lifecycle engine of beeper-automations                       *)
(* (src/src/notifications/service.rs): the reload channel, the             *)
(* reconciliation of the watcher registry (handle_config_reload), the Loop *)
(* watcher (start_loop_automation_static) and the shared immediate watcher *)
(* (start_immediate_watcher_static).                                       *)
(*                                                                         *)
(* Option<T> values are sequences of length <= 1: <<>> is None, <<x>> is   *)
(* Some(x).  A HashMap is a function whose DOMAIN is its key set.          *)
(***************************************************************************)
EXTENDS Integers, Sequences, FiniteSets, TLC

\* ------------------------------------------------------------------ bounds
MaxTasks == 4      \* task slots (live tokio tasks at one time)
MaxQueue == 2      \* snapshots buffered in the reload channel
MaxTime  == 3      \* a notify window is followed for MaxTime clock ticks
MaxKey   == 2      \* sort keys are 1..MaxKey, ordered as the Strings are
MaxSends == 2      \* snapshots sent on the reload channel in one run
TimeLimit == 2     \* loop_config.time of the ForATime rule, in clock ticks

\* --------------------------------------------------------------- constants
IMMEDIATE_WATCHER == "__immediate_watcher__"

\* chat ids, listed in String order (the order sort() produces)
ChatOrder == <<"c1", "c2">>
ChatSet == {ChatOrder[n] : n \in 1..Len(ChatOrder)}

None == <<>>
Some(x) == <<x>>

Range(s) == {s[n] : n \in 1..Len(s)}

\* ------------------------------------------------------------- data model
\* LoopConfig; check_interval only sets the length of the sleep, which the
\* model leaves to the scheduler.
LoopConfig(until, time) == [until |-> until, time |-> time]

NotificationAutomation(id, chat_ids, automation_type, notification_sound, focus_chat, loop_config, enabled) ==
  [id |-> id, chat_ids |-> chat_ids, automation_type |-> automation_type,
   notification_sound |-> notification_sound, focus_chat |-> focus_chat,
   loop_config |-> loop_config, enabled |-> enabled]

\* LastMessageCache; message_id is stored with the sort key and never read.
LastMessageCache(sort_key, notification_start_time) ==
  [sort_key |-> sort_key, notification_start_time |-> notification_start_time]

\* the rules the snapshots are built from
A_seen    == NotificationAutomation("A", <<"c1">>, "Loop", Some("ding.wav"), TRUE,
                                    Some(LoopConfig("MessageSeen", None)), TRUE)
A_off     == NotificationAutomation("A", <<"c1">>, "Loop", Some("ding.wav"), TRUE,
                                    Some(LoopConfig("MessageSeen", None)), FALSE)
A_answer  == NotificationAutomation("A", <<"c1">>, "Loop", Some(""), TRUE,
                                    Some(LoopConfig("Answer", None)), TRUE)
A_timed   == NotificationAutomation("A", <<"c1">>, "Loop", Some("ding.wav"), FALSE,
                                    Some(LoopConfig("ForATime", Some(TimeLimit))), TRUE)
A_timed_focus == NotificationAutomation("A", <<"c1">>, "Loop", Some("ding.wav"), TRUE,
                                    Some(LoopConfig("ForATime", Some(TimeLimit))), TRUE)
A_nolimit == NotificationAutomation("A", <<"c1">>, "Loop", Some("ding.wav"), FALSE,
                                    Some(LoopConfig("ForATime", None)), TRUE)
A_imm     == NotificationAutomation("A", <<"c1">>, "Immediate", Some("ding.wav"), TRUE,
                                    None, TRUE)
B_imm     == NotificationAutomation("B", <<"c1", "c2">>, "Immediate", None, TRUE,
                                    None, TRUE)
B_imm1    == NotificationAutomation("B", <<"c1">>, "Immediate", Some(""), TRUE,
                                    None, TRUE)
B_seen    == NotificationAutomation("B", <<"c2", "c1">>, "Loop", None, TRUE,
                                    Some(LoopConfig("MessageSeen", None)), TRUE)
B_seen1   == NotificationAutomation("B", <<"c1">>, "Loop", None, TRUE,
                                    Some(LoopConfig("MessageSeen", None)), TRUE)
B_noloop  == NotificationAutomation("B", <<"c2">>, "Loop", Some("ding.wav"), TRUE,
                                    None, TRUE)
B_nochat  == NotificationAutomation("B", <<>>, "Immediate", Some("ding.wav"), TRUE,
                                    None, TRUE)
\* a second rule with the id "A", and a rule whose id is the reserved one
A_dup     == NotificationAutomation("A", <<"c2">>, "Loop", None, FALSE,
                                    Some(LoopConfig("Answer", None)), TRUE)
S_seen    == NotificationAutomation(IMMEDIATE_WATCHER, <<"c1">>, "Loop", None, TRUE,
                                    Some(LoopConfig("MessageSeen", None)), TRUE)

\* a snapshot is the automations list of a Config
SnapshotsOf(as, bs) ==
  {<<>>} \cup {<<a>> : a \in as} \cup {<<b>> : b \in bs}
         \cup {<<a, b>> : a \in as, b \in bs}

\* ------------------------------------------------------------------ state
VARIABLES
  reload_rx,        \* the reload channel: snapshots sent and not yet received
  config,           \* AppState.config, the stored snapshot
  applied,          \* Option: the snapshot of the last completed reconciliation
  rt_pc,            \* run_service: "idle" (in recv), "reconcile", "prune"
  automation_tasks, \* the registry: set of [automation_id, handle]
  last_messages,    \* the shared cache of the immediate watcher
  tasks,            \* handle -> spawned task
  sends,            \* number of snapshots sent so far
  fired,            \* <<rule id, chat, sort key>> -> times the immediate
                    \* watcher fired the rule for that message (capped at 2)
  last,             \* the inputs and effects of the latest watcher step
  reload_tx,        \* the sending half of the reload channel: "open", "dropped"
  api,              \* AppState.config.api: [url, token]
  locks,            \* lock -> the set of tasks holding it ("rt" or a handle)
  service,          \* the NotificationService value: "alive", "dropped"
  poisoned          \* the std::sync::RwLocks of AppState that are poisoned

vars == <<reload_rx, config, applied, rt_pc, automation_tasks, last_messages,
          tasks, sends, fired, last, reload_tx, api, locks, service, poisoned>>

Handles == 1..MaxTasks

NoRule == NotificationAutomation("", <<>>, "Immediate", None, FALSE, None, FALSE)

EmptyMap == [c \in {} |-> LastMessageCache(0, None)]

\* a task slot: kind "free" is an unused slot.  pc: "start" (spawned, not
\* yet polled), "run" (inside an iteration, about to handle chat i),
\* "fire" (immediate watcher: cache updated, effects pending), "sleep"
\* (suspended in tokio::time::sleep), "done" (returned).  config is the
\* clone an immediate watcher takes with get_config before its effects.
Task(kind, automation, chat_ids) ==
  [kind |-> kind, automation |-> automation, chat_ids |-> chat_ids,
   pc |-> "start", i |-> 1, aborted |-> FALSE, last_messages |-> EmptyMap,
   key |-> 0, config |-> <<>>]

FreeTask == [Task("free", NoRule, <<>>) EXCEPT !.pc = "done"]

NoStep == [op |-> "none"]

\* ----------------------------------------------------- handle_config_reload
Enabled(cfg) == {n \in 1..Len(cfg) : cfg[n].enabled}

\* new_automations: collect() into a HashMap keeps the last rule of an id
new_automation_ids(cfg) == {cfg[n].id : n \in Enabled(cfg)}

new_automations(cfg) ==
  [id \in new_automation_ids(cfg) |->
     cfg[CHOOSE n \in Enabled(cfg) :
           /\ cfg[n].id = id
           /\ \A m \in Enabled(cfg) : cfg[m].id = id => m <= n]]

old_automation_ids(reg) == {e.automation_id : e \in reg}

\* mutant: removed and disabled rules are not stopped
to_stop_none(reg, cfg) == {}

\* mutant: surviving rules are left alone instead of restarted
to_restart_none(reg, cfg) == {}

\* lines 191-209
to_stop(reg, cfg) == old_automation_ids(reg) \ new_automation_ids(cfg)

to_start(reg, cfg) == new_automation_ids(cfg) \ old_automation_ids(reg)

to_restart(reg, cfg) == new_automation_ids(cfg) \cap old_automation_ids(reg)

\* JoinHandle::abort: a task that is suspended or was never polled is
\* dropped without running again; a task inside block_in_place keeps
\* running until it reaches an await that suspends it.
abort(t) ==
  IF t.pc \in {"start", "sleep", "lock", "done"} THEN FreeTask
  ELSE [t EXCEPT !.aborted = TRUE]

\* tasks.retain(|task| if ids.contains(id) { task.handle.abort(); false } ...)
\* on the pair st = [reg, ts, pool, ok] threaded through the handler
retain_abort(st, ids) ==
  LET gone == {e \in st.reg : e.automation_id \in ids}
  IN [st EXCEPT !.reg = st.reg \ gone,
                !.ts = [h \in Handles |->
                          IF \E e \in gone : e.handle = h
                          THEN abort(st.ts[h]) ELSE st.ts[h]]]

\* tokio::spawn + tasks.push(AutomationTask {automation_id, handle})
spawn_push(st, id, t) ==
  IF st.pool = {} THEN [st EXCEPT !.ok = FALSE]
  ELSE LET h == CHOOSE x \in st.pool : \A y \in st.pool : x <= y
       IN [st EXCEPT !.reg = st.reg \cup {[automation_id |-> id, handle |-> h]},
                     !.ts = [st.ts EXCEPT ![h] = t],
                     !.pool = st.pool \ {h}]

\* mutant: a new Loop watcher starts with an open notify window per chat
start_loop_with_open_window(automation) ==
  [Task("loop", automation, automation.chat_ids) EXCEPT
     !.last_messages = [c \in Range(automation.chat_ids) |->
                          LastMessageCache(1, Some(0))]]

start_loop_automation_static(automation) == Task("loop", automation, automation.chat_ids)

SortDedup(S) ==
  LET F[n \in 0..Len(ChatOrder)] ==
        IF n = 0 THEN <<>>
        ELSE IF ChatOrder[n] \in S THEN Append(F[n - 1], ChatOrder[n]) ELSE F[n - 1]
  IN F[Len(ChatOrder)]

start_immediate_watcher_static(chat_ids) == Task("immediate", NoRule, SortDedup(chat_ids))

RECURSIVE push_loops(_, _, _)
\* for automation_id in ids: a Loop rule gets a task and a registry entry
push_loops(st, ids, autos) ==
  IF ids = {} THEN st
  ELSE LET id == CHOOSE x \in ids : TRUE
           next == IF autos[id].automation_type = "Loop"
                   THEN spawn_push(st, id, start_loop_automation_static(autos[id]))
                   ELSE st
       IN push_loops(next, ids \ {id}, autos)

\* mutant: the new immediate watcher is pushed next to the old entry
restart_immediate_pushing(st, chat_ids) ==
  spawn_push(st, IMMEDIATE_WATCHER, start_immediate_watcher_static(chat_ids))

restart_immediate(st, chat_ids) ==
  spawn_push(retain_abort(st, {IMMEDIATE_WATCHER}), IMMEDIATE_WATCHER,
             start_immediate_watcher_static(chat_ids))

\* lines 270-291: the chat ids of the Immediate rules among the started ones
immediate_chat_ids(autos, ids) ==
  UNION {Range(autos[id].chat_ids) :
           id \in {x \in ids : autos[x].automation_type = "Immediate"}}

\* mutant: only the first enabled Immediate rule is taken
all_immediate_chat_ids_first(cfg) ==
  LET imm == {m \in Enabled(cfg) : cfg[m].automation_type = "Immediate"}
  IN IF imm = {} THEN {}
     ELSE Range(cfg[CHOOSE n \in imm : \A m \in imm : n <= m].chat_ids)

\* lines 329-335: the chat ids of every enabled Immediate rule of the snapshot
all_immediate_chat_ids(cfg) ==
  UNION {Range(cfg[n].chat_ids) :
           n \in {m \in Enabled(cfg) : cfg[m].automation_type = "Immediate"}}

has_immediate(st) == \E e \in st.reg : e.automation_id = IMMEDIATE_WATCHER

\* the registry part of handle_config_reload (lines 173-369)
reconcile(reg, ts, cfg) ==
  LET autos   == new_automations(cfg)
      stop    == to_stop(reg, cfg)
      start   == to_start(reg, cfg)
      restart == to_restart(reg, cfg)
      st0 == [reg |-> reg, ts |-> ts, ok |-> TRUE,
              pool |-> {h \in Handles : ts[h].kind = "free"}]
      \* Stop removed/disabled automations
      st1 == retain_abort(st0, stop)
      \* Restart modified automations
      st2 == push_loops(retain_abort(st1, restart), restart, autos)
      \* Start new automations
      st3 == push_loops(st2, start, autos)
      st4 == IF start # {} /\ immediate_chat_ids(autos, start) # {}
             THEN restart_immediate(st3, immediate_chat_ids(autos, start)) ELSE st3
      \* immediate automations among the restarted ones
      st5 == IF /\ all_immediate_chat_ids(cfg) # {}
                /\ has_immediate(st4)
                /\ \E id \in restart : autos[id].automation_type = "Immediate"
             THEN restart_immediate(st4, all_immediate_chat_ids(cfg)) ELSE st4
  IN st5

\* cache.retain(|chat_id, _| all_tracked_chat_ids.contains(chat_id))
all_tracked_chat_ids(cfg) == UNION {Range(cfg[n].chat_ids) : n \in Enabled(cfg)}

\* mutant: every entry is retained
prune_nothing(cache, cfg) == cache

prune(cache, cfg) ==
  [c \in DOMAIN cache \cap all_tracked_chat_ids(cfg) |-> cache[c]]

\* ------------------------------------------------------- collaborators
\* what a watcher reads of a list_messages answer: an error (the client call
\* failed or the client could not be accessed) or the page, of which only
\* items.first() is used
Message(sort_key, is_sender) == [sort_key |-> sort_key, is_sender |-> is_sender]

MessageResults ==
  {[ok |-> FALSE, items |-> <<>>], [ok |-> TRUE, items |-> <<>>]}
    \cup {[ok |-> TRUE, items |-> <<Message(k, s)>>] :
            k \in 1..MaxKey, s \in {None, Some(TRUE), Some(FALSE)}}

\* answers with one more sort key, so that a chat can get a second new
\* message after its first one
WindowResults ==
  {[ok |-> FALSE, items |-> <<>>]}
    \cup {[ok |-> TRUE, items |-> <<Message(k, None)>>] : k \in 1..(MaxKey + 1)}

\* what a watcher reads of a list_chats answer: an error, or the page, of
\* which only the entry of the polled chat is used (items.iter().find(..))
Unread == {0, 3}

ChatResults(chat_id) ==
  {[ok |-> FALSE, items |-> <<>>], [ok |-> TRUE, items |-> <<>>]}
    \cup {[ok |-> TRUE, items |-> <<[id |-> chat_id, unread_count |-> u]>>] :
            u \in Unread}

\* ------------------------------------------------------------ Loop watcher
\* notification_start_time holds the time elapsed since the Instant the code
\* stores: Some(0) is Instant::now(), the value is start_time.elapsed().
insert(cache, chat_id, entry) ==
  [c \in DOMAIN cache \cup {chat_id} |-> IF c = chat_id THEN entry ELSE cache[c]]

\* mutant: the newest message is compared with the entry of the shared map
is_new_message_shared(cache, chat_id, latest) ==
  IF chat_id \in DOMAIN last_messages
  THEN last_messages[chat_id].sort_key < latest.sort_key
  ELSE FALSE

\* lines 552-564: is_new_message, seeding the cache on the first observation
is_new_message(cache, chat_id, latest) ==
  IF chat_id \in DOMAIN cache THEN cache[chat_id].sort_key < latest.sort_key
  ELSE FALSE

\* mutant: the first observation opens the notify window like a new message
track_first_as_new(cache, chat_id, latest, loop_config) ==
  IF chat_id \notin DOMAIN cache \/ is_new_message(cache, chat_id, latest)
  THEN insert(cache, chat_id,
              LastMessageCache(latest.sort_key,
                               IF loop_config.until = "ForATime" THEN Some(0) ELSE None))
  ELSE cache

\* mutant: a new message leaves an open notify window as it is
track_keeping_window(cache, chat_id, latest, loop_config) ==
  IF chat_id \notin DOMAIN cache
  THEN insert(cache, chat_id, LastMessageCache(latest.sort_key, None))
  ELSE IF is_new_message(cache, chat_id, latest)
  THEN insert(cache, chat_id,
              LastMessageCache(latest.sort_key,
                               IF cache[chat_id].notification_start_time # None
                               THEN cache[chat_id].notification_start_time
                               ELSE IF loop_config.until = "ForATime" THEN Some(0)
                               ELSE None))
  ELSE cache

\* mutant: a new message starts the timer under every policy
track_timing_every_policy(cache, chat_id, latest, loop_config) ==
  IF chat_id \notin DOMAIN cache
  THEN insert(cache, chat_id, LastMessageCache(latest.sort_key, None))
  ELSE IF is_new_message(cache, chat_id, latest)
  THEN insert(cache, chat_id, LastMessageCache(latest.sort_key, Some(0)))
  ELSE cache

\* lines 552-581: the cache after the new-message check
track(cache, chat_id, latest, loop_config) ==
  IF chat_id \notin DOMAIN cache
  THEN insert(cache, chat_id, LastMessageCache(latest.sort_key, None))
  ELSE IF is_new_message(cache, chat_id, latest)
  THEN insert(cache, chat_id,
              LastMessageCache(latest.sort_key,
                               IF loop_config.until = "ForATime" THEN Some(0) ELSE None))
  ELSE cache

\* mutant: the window closes only after the limit is exceeded
time_limit_exceeded(cache, chat_id, loop_config) ==
  /\ chat_id \in DOMAIN cache
  /\ cache[chat_id].notification_start_time # None
  /\ loop_config.time # None
  /\ cache[chat_id].notification_start_time[1] > loop_config.time[1]

\* lines 601-627: the ForATime arm reaches its time limit
time_limit_reached(cache, chat_id, loop_config) ==
  /\ chat_id \in DOMAIN cache
  /\ cache[chat_id].notification_start_time # None
  /\ loop_config.time # None
  /\ cache[chat_id].notification_start_time[1] >= loop_config.time[1]

\* mutant: MessageSeen notifies also when nothing is unread
should_notify_any_count(cache, chat_id, latest, chat, loop_config) ==
  CASE loop_config.until = "MessageSeen" -> chat.unread_count >= 0
    [] loop_config.until = "Answer" ->
         IF latest.is_sender # None THEN ~latest.is_sender[1]
         ELSE chat.unread_count > 0
    [] loop_config.until = "ForATime" ->
         /\ chat_id \in DOMAIN cache
         /\ cache[chat_id].notification_start_time # None
         /\ loop_config.time # None
         /\ ~time_limit_reached(cache, chat_id, loop_config)

\* mutant: Answer follows the unread count whoever sent the newest message
should_notify_by_unread(cache, chat_id, latest, chat, loop_config) ==
  CASE loop_config.until = "MessageSeen" -> chat.unread_count > 0
    [] loop_config.until = "Answer" -> chat.unread_count > 0
    [] loop_config.until = "ForATime" ->
         /\ chat_id \in DOMAIN cache
         /\ cache[chat_id].notification_start_time # None
         /\ loop_config.time # None
         /\ ~time_limit_reached(cache, chat_id, loop_config)

\* lines 585-628: should_notify
should_notify(cache, chat_id, latest, chat, loop_config) ==
  CASE loop_config.until = "MessageSeen" -> chat.unread_count > 0
    [] loop_config.until = "Answer" ->
         IF latest.is_sender # None THEN ~latest.is_sender[1]
         ELSE chat.unread_count > 0
    [] loop_config.until = "ForATime" ->
         /\ chat_id \in DOMAIN cache
         /\ cache[chat_id].notification_start_time # None
         /\ loop_config.time # None
         /\ ~time_limit_reached(cache, chat_id, loop_config)

\* lines 630-674: the effects of one rule for one chat, in the order fired
effects_of(automation) ==
  (IF automation.focus_chat THEN <<[id |-> automation.id, kind |-> "focus"]>> ELSE <<>>)
  \o (IF automation.notification_sound # None /\ automation.notification_sound[1] # ""
      THEN <<[id |-> automation.id, kind |-> "sound"]>> ELSE <<>>)

\* mutant: a failed list_chats is taken for a page without the chat
check_chat_despite_error(t, chat_id, mr, cr) ==
  LET loop_config == t.automation.loop_config[1]
      cache == t.last_messages
      nothing == [cache |-> cache, first |-> FALSE, is_new |-> FALSE,
                  notify |-> None, expired |-> FALSE, effects |-> <<>>]
  IN IF ~mr.ok \/ mr.items = <<>> THEN nothing
     ELSE [nothing EXCEPT !.cache = track(cache, chat_id, mr.items[1], loop_config),
                          !.first = chat_id \notin DOMAIN cache,
                          !.is_new = is_new_message(cache, chat_id, mr.items[1])]

\* what a focus_app call gives: Ok(Ok(response)) with response.success true
\* or false, or an error of the call or of the client access
FocusResults == {"success", "no_success", "error"}

IsFocus(e) == e.kind = "focus"

\* mutant: nothing is done after a focus that did not succeed
performed_until_failure(es, fr) ==
  IF fr = "success" THEN es ELSE SelectSeq(es, IsFocus)

\* lines 635-673 and 432-470: the effects carried out when the focus_app
\* call gives fr; the match on its result only logs
performed(es, fr) == es

\* mutant: a chat missing from the chat list is evaluated as a chat with
\* nothing unread
check_chat_absent_as_read(t, chat_id, mr, cr) ==
  LET loop_config == t.automation.loop_config[1]
      cache == t.last_messages
      nothing == [cache |-> cache, first |-> FALSE, is_new |-> FALSE,
                  notify |-> None, expired |-> FALSE, effects |-> <<>>]
  IN IF ~(mr.ok /\ cr.ok) \/ mr.items = <<>> THEN nothing
     ELSE LET latest == mr.items[1]
              cache1 == track(cache, chat_id, latest, loop_config)
              chat == IF cr.items = <<>> THEN [id |-> chat_id, unread_count |-> 0]
                      ELSE cr.items[1]
              notify == should_notify(cache1, chat_id, latest, chat, loop_config)
          IN [nothing EXCEPT !.cache = cache1,
                             !.first = chat_id \notin DOMAIN cache,
                             !.is_new = is_new_message(cache, chat_id, latest),
                             !.notify = IF cr.items = <<>> THEN None ELSE Some(notify),
                             !.effects = IF notify THEN effects_of(t.automation)
                                         ELSE <<>>]

\* lines 546-684: one chat of one iteration; the result is the new private
\* map and what the step observed and did
check_chat(t, chat_id, mr, cr) ==
  LET loop_config == t.automation.loop_config[1]
      cache == t.last_messages
      nothing == [cache |-> cache, first |-> FALSE, is_new |-> FALSE,
                  notify |-> None, expired |-> FALSE, effects |-> <<>>]
  IN IF ~(mr.ok /\ cr.ok) \/ mr.items = <<>> THEN nothing
     ELSE LET latest == mr.items[1]
              cache1 == track(cache, chat_id, latest, loop_config)
              seen == [nothing EXCEPT !.cache = cache1,
                                      !.first = chat_id \notin DOMAIN cache,
                                      !.is_new = is_new_message(cache, chat_id, latest)]
          IN IF cr.items = <<>> THEN seen
             ELSE LET chat == cr.items[1]
                      notify == should_notify(cache1, chat_id, latest, chat, loop_config)
                      expired == /\ loop_config.until = "ForATime"
                                 /\ time_limit_reached(cache1, chat_id, loop_config)
                      cache2 ==
                        IF expired
                        THEN insert(cache1, chat_id,
                                    LastMessageCache(cache1[chat_id].sort_key, None))
                        ELSE cache1
                  IN [seen EXCEPT !.cache = cache2,
                                  !.notify = Some(notify),
                                  !.expired = expired,
                                  !.effects = IF notify THEN effects_of(t.automation)
                                              ELSE <<>>]

\* ------------------------------------------------------ immediate watcher
\* mutant: the kind of the rule is not looked at
immediate_effects_any_kind(cfg, chat_id) ==
  LET F[n \in 0..Len(cfg)] ==
        IF n = 0 THEN <<>>
        ELSE IF cfg[n].enabled /\ chat_id \in Range(cfg[n].chat_ids)
             THEN Append(F[n - 1], [id |-> cfg[n].id, effects |-> effects_of(cfg[n])])
             ELSE F[n - 1]
  IN F[Len(cfg)]

\* lines 425-472: the rules that fire for a chat, in the order of the stored
\* configuration, each with its effects
immediate_effects(cfg, chat_id) ==
  LET F[n \in 0..Len(cfg)] ==
        IF n = 0 THEN <<>>
        ELSE IF /\ cfg[n].enabled
                /\ cfg[n].automation_type = "Immediate"
                /\ chat_id \in Range(cfg[n].chat_ids)
             THEN Append(F[n - 1], [id |-> cfg[n].id, effects |-> effects_of(cfg[n])])
             ELSE F[n - 1]
  IN F[Len(cfg)]

\* mutant: a message as new as the cached one counts as newer
is_newer_or_same(cache, chat_id, latest) ==
  chat_id \in DOMAIN cache /\ cache[chat_id].sort_key <= latest.sort_key

\* lines 411-412: a cached entry exists and the newest message is newer
is_newer(cache, chat_id, latest) ==
  chat_id \in DOMAIN cache /\ cache[chat_id].sort_key < latest.sort_key

\* mutant: a newer message leaves the entry as it is
check_without_update(cache, chat_id, latest) ==
  IF chat_id \notin DOMAIN cache
  THEN insert(cache, chat_id, LastMessageCache(latest.sort_key, None))
  ELSE cache

\* mutant: the entry is overwritten with whatever message is the newest
check_and_overwrite(cache, chat_id, latest) ==
  insert(cache, chat_id, LastMessageCache(latest.sort_key, None))

\* lines 408-483: the check-and-update of one entry under the cache lock
check_and_update(cache, chat_id, latest) ==
  IF chat_id \notin DOMAIN cache \/ is_newer(cache, chat_id, latest)
  THEN insert(cache, chat_id, LastMessageCache(latest.sort_key, None))
  ELSE cache

bump(f, ids, chat_id, key) ==
  [x \in DOMAIN f |->
     IF x[2] = chat_id /\ x[3] = key
     THEN LET n == Cardinality({m \in 1..Len(ids) : ids[m].id = x[1]})
          IN IF f[x] + n > 2 THEN 2 ELSE f[x] + n
     ELSE f[x]]

\* mutant: an aborted task sleeps and wakes like any other
advance_ignoring_abort(t) ==
  IF t.i < Len(t.chat_ids) THEN [t EXCEPT !.pc = "run", !.i = t.i + 1]
  ELSE [t EXCEPT !.pc = "sleep", !.i = 1]

\* mutant: the task returns after one iteration
advance_once(t) ==
  IF t.i < Len(t.chat_ids) THEN [t EXCEPT !.pc = "run", !.i = t.i + 1]
  ELSE IF t.aborted THEN FreeTask
  ELSE [t EXCEPT !.pc = "done", !.i = 1]

\* the task after chat i of an iteration: the next chat, or the sleep at the
\* end of the iteration, where an aborted task is dropped
advance(t) ==
  IF t.i < Len(t.chat_ids) THEN [t EXCEPT !.pc = "run", !.i = t.i + 1]
  ELSE IF t.aborted THEN FreeTask
  ELSE [t EXCEPT !.pc = "sleep", !.i = 1]

\* ---------------------------------------------------------------- config.rs
\* ApiConfig; a String is a TLA+ string and is_empty compares with ""
ApiConfig(url, token) == [url |-> url, token |-> token]

DEFAULT_URL == "http://localhost:23373"

ApiConfig_default == ApiConfig(DEFAULT_URL, "")

Urls == {"", DEFAULT_URL, "http://localhost:1", "https://beeper.example", "h", " ",
         "localhost", "0"}

Tokens == {"", "test-token", "t", " ", "0", "secret", "a-b", "tok en"}

ApiConfigs == {ApiConfig(u, t) : u \in Urls, t \in Tokens}

is_empty(s) == s = ""

\* mutant: one non-empty field is enough
is_api_configured_either(a) == ~is_empty(a.token) \/ ~is_empty(a.url)

\* Config::is_api_configured
is_api_configured(a) == ~is_empty(a.token) /\ ~is_empty(a.url)

\* the api section of the configuration the service runs with
ConfiguredApi == ApiConfig(DEFAULT_URL, "test-token")

\* ------------------------------------------------------------------- locks
\* app_state: the RwLock around AppState; client: AppState.client; cache:
\* the tokio RwLock around the shared last_messages map
LockNames == {"app_state", "client", "cache"}

NoLocks == [l \in LockNames |-> {}]

\* ---------------------------------------------------------------- actions
FiredKeys == {"A", "B"} \X ChatSet \X (1..MaxKey)

\* NotificationService::new: nothing received, no watcher, empty cache
New ==
  /\ service = "alive"
  /\ poisoned = {}
  /\ reload_tx = "open"
  /\ locks = NoLocks
  /\ reload_rx = <<>>
  /\ config = <<>>
  /\ applied = None
  /\ rt_pc = "idle"
  /\ automation_tasks = {}
  /\ last_messages = EmptyMap
  /\ tasks = [h \in Handles |-> FreeTask]
  /\ sends = 0
  /\ fired = [x \in FiredKeys |-> 0]
  /\ last = NoStep

Init == New /\ api = ConfiguredApi

\* Config::load(): any api section may be read from the file
InitApi == New /\ api \in ApiConfigs

\* lib.rs, lines 23 and 41: is_api_configured of the loaded configuration
CheckApi ==
  /\ last' = [op |-> "is_api_configured", result |-> is_api_configured(api)]
  /\ UNCHANGED <<service, poisoned, reload_tx, api, locks, reload_rx, config, applied, rt_pc,
                 automation_tasks, last_messages, tasks, sends, fired>>

\* SharedAppState::update_api(url, token)
update_api(url, token) ==
  /\ api' = ApiConfig(url, token)
  /\ last' = NoStep
  /\ UNCHANGED <<service, poisoned, reload_tx, locks, reload_rx, config, applied, rt_pc,
                 automation_tasks, last_messages, tasks, sends, fired>>

\* reload_tx.send(config).await
send(cfg) ==
  /\ reload_tx = "open"
  /\ Len(reload_rx) < MaxQueue
  /\ reload_rx' = Append(reload_rx, cfg)
  /\ sends' = sends + 1
  /\ last' = NoStep
  /\ UNCHANGED <<service, poisoned, reload_tx, api, locks, config, applied, rt_pc, automation_tasks, last_messages, tasks, fired>>

\* lib.rs run_service, lines 40-51: the initial snapshot is sent
SendInitial(cfg) ==
  /\ sends = 0
  /\ send(cfg)

\* lib.rs run_service, lines 67-100: the config file changed and is sent
SendReload(cfg) ==
  /\ sends > 0
  /\ sends < MaxSends
  /\ send(cfg)

\* mutant: the newest buffered snapshot is taken first
recv_newest(q) == [msg |-> q[Len(q)], rest |-> SubSeq(q, 1, Len(q) - 1)]

\* rx.recv() on a non-empty channel: the oldest buffered snapshot
recv(q) == [msg |-> Head(q), rest |-> Tail(q)]

\* run_service: rx.recv() returns Some(config); handle_config_reload begins
\* with app_state.update_config(new_config)
RecvReload ==
  /\ rt_pc = "idle"
  /\ reload_rx # <<>>
  /\ config' = recv(reload_rx).msg
  /\ reload_rx' = recv(reload_rx).rest
  /\ rt_pc' = "reconcile"
  /\ last' = NoStep
  /\ UNCHANGED <<service, poisoned, reload_tx, api, locks, applied, automation_tasks, last_messages, tasks, sends, fired>>

\* handle_config_reload, lines 173-369: stop, restart, start
Reconcile ==
  /\ rt_pc = "reconcile"
  /\ LET st == reconcile(automation_tasks, tasks, config)
     IN /\ st.ok
        /\ automation_tasks' = st.reg
        /\ tasks' = st.ts
  /\ rt_pc' = "prune"
  /\ last' = NoStep
  /\ UNCHANGED <<service, poisoned, reload_tx, api, locks, reload_rx, config, applied, last_messages, sends, fired>>

\* handle_config_reload, lines 371-381: prune the shared cache and return
PruneCache ==
  /\ rt_pc = "prune"
  /\ locks["cache"] = {}
  /\ last_messages' = prune(last_messages, config)
  /\ fired' = [x \in FiredKeys |->
                 IF x[2] \in all_tracked_chat_ids(config) THEN fired[x] ELSE 0]
  /\ applied' = Some(config)
  /\ rt_pc' = "idle"
  /\ last' = [op |-> "prune", removed |-> DOMAIN last_messages \ DOMAIN last_messages']
  /\ UNCHANGED <<service, poisoned, reload_tx, api, locks, reload_rx, config, automation_tasks, tasks, sends>>

\* the reload task of lib.rs ends and drops reload_tx
DropSender ==
  /\ reload_tx = "open"
  /\ reload_tx' = "dropped"
  /\ last' = NoStep
  /\ UNCHANGED <<service, poisoned, api, locks, reload_rx, config, applied, rt_pc, automation_tasks,
                 last_messages, tasks, sends, fired>>

\* mutant: the watchers are aborted when the channel closes
on_closed_abort_all(reg, ts) ==
  [reg |-> {},
   ts |-> [h \in Handles |->
             IF \E e \in reg : e.handle = h THEN abort(ts[h]) ELSE ts[h]]]

\* run_service, lines 153-156: recv() returned None; the loop is left and
\* neither the registry nor a task is touched
on_closed(reg, ts) == [reg |-> reg, ts |-> ts]

\* run_service: rx.recv() returns None on the closed and drained channel
RecvClosed ==
  /\ rt_pc = "idle"
  /\ reload_rx = <<>>
  /\ reload_tx = "dropped"
  /\ rt_pc' = "stopped"
  /\ automation_tasks' = on_closed(automation_tasks, tasks).reg
  /\ tasks' = on_closed(automation_tasks, tasks).ts
  /\ last' = NoStep
  /\ UNCHANGED <<service, poisoned, reload_tx, api, locks, reload_rx, config, applied, last_messages,
                 sends, fired>>

\* the clock advances: every open notify window grows older
Tick ==
  /\ \A h \in Handles : \A c \in DOMAIN tasks[h].last_messages :
        tasks[h].last_messages[c].notification_start_time # None
          => tasks[h].last_messages[c].notification_start_time[1] < MaxTime
  /\ tasks' = [h \in Handles |->
       [tasks[h] EXCEPT !.last_messages =
          [c \in DOMAIN tasks[h].last_messages |->
             LET e == tasks[h].last_messages[c]
             IN IF e.notification_start_time = None THEN e
                ELSE [e EXCEPT !.notification_start_time = Some(@[1] + 1)]]]]
  /\ tasks' # tasks
  /\ last' = NoStep
  /\ UNCHANGED <<service, poisoned, reload_tx, api, locks, reload_rx, config, applied, rt_pc, automation_tasks, last_messages,
                 sends, fired>>

\* mutant: a task that returns takes its entry out of the registry
LoopStart_deregistering(h) ==
  /\ tasks[h].kind = "loop"
  /\ tasks[h].pc = "start"
  /\ tasks' = [tasks EXCEPT ![h] =
       IF tasks[h].automation.loop_config = None THEN [@ EXCEPT !.pc = "done"]
       ELSE IF tasks[h].chat_ids = <<>> THEN [@ EXCEPT !.pc = "sleep"]
       ELSE [@ EXCEPT !.pc = "run", !.i = 1]]
  /\ automation_tasks' =
       IF tasks[h].automation.loop_config = None
       THEN {e \in automation_tasks : e.handle # h} ELSE automation_tasks
  /\ last' = NoStep
  /\ UNCHANGED <<service, poisoned, reload_tx, api, locks, reload_rx, config, applied, rt_pc, last_messages,
                 sends, fired>>

\* start_loop_automation_static, lines 506-525: the first poll of the task
LoopStart(h) ==
  /\ tasks[h].kind = "loop"
  /\ tasks[h].pc = "start"
  /\ tasks' = [tasks EXCEPT ![h] =
       IF tasks[h].automation.loop_config = None THEN [@ EXCEPT !.pc = "done"]
       ELSE IF tasks[h].chat_ids = <<>> THEN [@ EXCEPT !.pc = "sleep"]
       ELSE [@ EXCEPT !.pc = "run", !.i = 1]]
  /\ last' = NoStep
  /\ UNCHANGED <<service, poisoned, reload_tx, api, locks, reload_rx, config, applied, rt_pc, automation_tasks, last_messages,
                 sends, fired>>

\* the sleep of either watcher is over: the next iteration begins
Wake(h) ==
  /\ tasks[h].kind \in {"loop", "immediate"}
  /\ tasks[h].pc = "sleep"
  /\ tasks[h].chat_ids # <<>>
  /\ tasks' = [tasks EXCEPT ![h] = [@ EXCEPT !.pc = "run", !.i = 1]]
  /\ last' = NoStep
  /\ UNCHANGED <<service, poisoned, reload_tx, api, locks, reload_rx, config, applied, rt_pc, automation_tasks, last_messages,
                 sends, fired>>

\* start_loop_automation_static, lines 527-685: one chat of the iteration,
\* with the list_messages answer drawn from results and the focus_app answer
\* from focus_results; last.window is the chat's notification_start_time
\* before the step, last.focus the answer of the focus_app call if one was made
LoopCheckChatOf(h, results, focus_results) ==
  /\ tasks[h].kind = "loop"
  /\ tasks[h].pc = "run"
  /\ LET t == tasks[h]
         chat_id == t.chat_ids[t.i]
     IN \E mr \in results, cr \in ChatResults(chat_id), fr \in focus_results :
          LET r == check_chat(t, chat_id, mr, cr)
          IN /\ tasks' = [tasks EXCEPT ![h] = advance([t EXCEPT !.last_messages = r.cache])]
             /\ last' = [op |-> "loop", task |-> h, chat |-> chat_id,
                         automation |-> t.automation, mr |-> mr, cr |-> cr,
                         first |-> r.first, is_new |-> r.is_new,
                         notify |-> r.notify, expired |-> r.expired,
                         effects |-> performed(r.effects, fr),
                         focus |-> IF \E n \in 1..Len(r.effects) : IsFocus(r.effects[n])
                                   THEN Some(fr) ELSE None,
                         window |-> IF chat_id \in DOMAIN t.last_messages
                                    THEN t.last_messages[chat_id].notification_start_time
                                    ELSE None]
  /\ UNCHANGED <<service, poisoned, reload_tx, api, locks, reload_rx, config, applied, rt_pc, automation_tasks, last_messages,
                 sends, fired>>

LoopCheckChat(h) == LoopCheckChatOf(h, MessageResults, {"success"})

\* start_immediate_watcher_static, lines 390-393: the first poll of the task
ImmStart(h) ==
  /\ tasks[h].kind = "immediate"
  /\ tasks[h].pc = "start"
  /\ tasks' = [tasks EXCEPT ![h] = [@ EXCEPT !.pc = "run", !.i = 1]]
  /\ last' = NoStep
  /\ UNCHANGED <<service, poisoned, reload_tx, api, locks, reload_rx, config, applied, rt_pc, automation_tasks, last_messages,
                 sends, fired>>

\* start_immediate_watcher_static, lines 395-423 and 475-492: list_messages
\* for one chat, then the check-and-update of its entry.  last_messages
\* .write().await is the only await inside the iteration: an aborted task is
\* dropped there if the await suspends it and runs on if the lock is free.
ImmPoll(h) ==
  /\ tasks[h].kind = "immediate"
  /\ tasks[h].pc = "run"
  /\ LET t == tasks[h]
         chat_id == t.chat_ids[t.i]
     IN \E mr \in MessageResults :
          LET seen == [op |-> "immediate", task |-> h, chat |-> chat_id,
                       automation |-> NoRule, mr |-> mr, cr |-> [ok |-> TRUE, items |-> <<>>],
                       first |-> FALSE, is_new |-> FALSE, notify |-> None,
                       expired |-> FALSE, effects |-> <<>>]
          IN IF ~mr.ok \/ mr.items = <<>>
             THEN /\ tasks' = [tasks EXCEPT ![h] = advance(t)]
                  /\ last' = seen
                  /\ UNCHANGED last_messages
             ELSE \/ /\ t.aborted
                     /\ tasks' = [tasks EXCEPT ![h] = FreeTask]
                     /\ last' = seen
                     /\ UNCHANGED last_messages
                  \/ LET latest == mr.items[1]
                         newer == is_newer(last_messages, chat_id, latest)
                     IN /\ last_messages' = check_and_update(last_messages, chat_id, latest)
                        /\ tasks' = [tasks EXCEPT ![h] =
                             IF newer THEN [t EXCEPT !.pc = "fire", !.key = latest.sort_key]
                             ELSE advance(t)]
                        /\ last' = [seen EXCEPT !.first = chat_id \notin DOMAIN last_messages,
                                                !.is_new = newer]
  /\ UNCHANGED <<service, poisoned, reload_tx, api, locks, reload_rx, config, applied, rt_pc, automation_tasks, sends, fired>>

\* start_immediate_watcher_static, lines 425-473: the stored configuration
\* is read and every enabled Immediate rule containing the chat fires; every
\* focus_app call of the step gives an answer of focus_results
ImmFireOf(h, focus_results) ==
  /\ tasks[h].kind = "immediate"
  /\ tasks[h].pc = "fire"
  /\ LET t == tasks[h]
         chat_id == t.chat_ids[t.i]
         rules == immediate_effects(config, chat_id)
     IN \E fr \in focus_results :
        /\ fired' = bump(fired, rules, chat_id, t.key)
        /\ tasks' = [tasks EXCEPT ![h] = advance([t EXCEPT !.key = 0])]
        /\ last' = [op |-> "fire", task |-> h, chat |-> chat_id, key |-> t.key,
                    rules |-> [n \in 1..Len(rules) |->
                                 [id |-> rules[n].id,
                                  effects |-> performed(rules[n].effects, fr)]],
                    focus |-> fr]
  /\ UNCHANGED <<service, poisoned, reload_tx, api, locks, reload_rx, config, applied, rt_pc, automation_tasks, last_messages,
                 sends>>

ImmFire(h) == ImmFireOf(h, {"success"})

\* line 426 alone: app_state.get_config() clones the stored configuration
ImmGetConfig(h) ==
  /\ tasks[h].kind = "immediate"
  /\ tasks[h].pc = "fire"
  /\ tasks' = [tasks EXCEPT ![h] = [@ EXCEPT !.pc = "effects", !.config = config]]
  /\ last' = NoStep
  /\ UNCHANGED <<service, poisoned, reload_tx, api, locks, reload_rx, config, applied, rt_pc,
                 automation_tasks, last_messages, sends, fired>>

\* lines 427-470: the loop over the automations of the clone, with its
\* focus_app calls and sounds
ImmEffects(h) ==
  /\ tasks[h].kind = "immediate"
  /\ tasks[h].pc = "effects"
  /\ LET t == tasks[h]
         chat_id == t.chat_ids[t.i]
         rules == immediate_effects(t.config, chat_id)
     IN /\ fired' = bump(fired, rules, chat_id, t.key)
        /\ tasks' = [tasks EXCEPT ![h] = advance([t EXCEPT !.key = 0, !.config = <<>>])]
        /\ last' = [op |-> "fire", task |-> h, chat |-> chat_id, key |-> t.key,
                    rules |-> [n \in 1..Len(rules) |->
                                 [id |-> rules[n].id,
                                  effects |-> performed(rules[n].effects, "success")]],
                    focus |-> "success"]
  /\ UNCHANGED <<service, poisoned, reload_tx, api, locks, reload_rx, config, applied, rt_pc,
                 automation_tasks, last_messages, sends>>

\* ------------------------------------------- the watcher's calls and locks
\* The same immediate watcher with each collaborator call and each lock
\* acquisition as a step of its own.  pc: "call" (inside with_client, the
\* list_messages request in flight), "lock" (suspended in
\* last_messages.write().await), "locked" (holding the cache lock).
read_lock(l, name, h) == [l EXCEPT ![name] = @ \cup {h}]

\* mutant: the guard is kept
keep(l, name, h) == l

\* drop(guard), explicit or at the end of the guard's scope
unlock(l, name, h) == [l EXCEPT ![name] = @ \ {h}]

\* with_client, app_state.rs lines 76-84: both read locks are taken and
\* held while the closure, which blocks on list_messages, runs
ImmCall(h) ==
  /\ tasks[h].kind = "immediate"
  /\ tasks[h].pc = "run"
  /\ tasks' = [tasks EXCEPT ![h] = [@ EXCEPT !.pc = "call"]]
  /\ locks' = read_lock(read_lock(locks, "app_state", h), "client", h)
  /\ last' = NoStep
  /\ UNCHANGED <<service, poisoned, reload_tx, api, reload_rx, config, applied, rt_pc, automation_tasks,
                 last_messages, sends, fired>>

\* list_messages returns and with_client releases its guards; with a newest
\* message the task reaches last_messages.write().await (line 408): it takes
\* the lock if it is free and is suspended otherwise, where an aborted task
\* is dropped
ImmReturn(h) ==
  /\ tasks[h].kind = "immediate"
  /\ tasks[h].pc = "call"
  /\ LET t == tasks[h]
         released == unlock(unlock(locks, "client", h), "app_state", h)
     IN \E mr \in MessageResults :
          IF ~mr.ok \/ mr.items = <<>>
          THEN /\ tasks' = [tasks EXCEPT ![h] = advance(t)]
               /\ locks' = released
          ELSE IF locks["cache"] = {}
          THEN /\ tasks' = [tasks EXCEPT ![h] =
                              [t EXCEPT !.pc = "locked", !.key = mr.items[1].sort_key]]
               /\ locks' = [released EXCEPT !["cache"] = {h}]
          ELSE /\ tasks' = [tasks EXCEPT ![h] =
                              IF t.aborted THEN FreeTask
                              ELSE [t EXCEPT !.pc = "lock", !.key = mr.items[1].sort_key]]
               /\ locks' = released
  /\ last' = NoStep
  /\ UNCHANGED <<service, poisoned, reload_tx, api, reload_rx, config, applied, rt_pc, automation_tasks,
                 last_messages, sends, fired>>

\* the suspended write().await is granted the lock
ImmAcquire(h) ==
  /\ tasks[h].kind = "immediate"
  /\ tasks[h].pc = "lock"
  /\ locks["cache"] = {}
  /\ tasks' = [tasks EXCEPT ![h] = [@ EXCEPT !.pc = "locked"]]
  /\ locks' = [locks EXCEPT !["cache"] = {h}]
  /\ last' = NoStep
  /\ UNCHANGED <<service, poisoned, reload_tx, api, reload_rx, config, applied, rt_pc, automation_tasks,
                 last_messages, sends, fired>>

\* lines 410-423 and 475-483: the check-and-update of the entry under the
\* lock; the guard is dropped before the effects (line 423) or at the end of
\* its scope
ImmCheck(h) ==
  /\ tasks[h].kind = "immediate"
  /\ tasks[h].pc = "locked"
  /\ LET t == tasks[h]
         chat_id == t.chat_ids[t.i]
         latest == Message(t.key, None)
         newer == is_newer(last_messages, chat_id, latest)
     IN /\ last_messages' = check_and_update(last_messages, chat_id, latest)
        /\ tasks' = [tasks EXCEPT ![h] =
                       IF newer THEN [t EXCEPT !.pc = "fire"]
                       ELSE advance([t EXCEPT !.key = 0])]
        /\ last' = [op |-> "immediate", task |-> h, chat |-> chat_id,
                    automation |-> NoRule,
                    mr |-> [ok |-> TRUE, items |-> <<latest>>],
                    cr |-> [ok |-> TRUE, items |-> <<>>],
                    first |-> chat_id \notin DOMAIN last_messages, is_new |-> newer,
                    notify |-> None, expired |-> FALSE, effects |-> <<>>]
  /\ locks' = unlock(locks, "cache", h)
  /\ UNCHANGED <<service, poisoned, reload_tx, api, reload_rx, config, applied, rt_pc, automation_tasks,
                 sends, fired>>

\* the api sections a reload may carry
ReloadApis == {ConfiguredApi, ApiConfig(DEFAULT_URL, "secret")}

\* run_service: rx.recv() returns Some(config), whose api section is new_api;
\* update_config (app_state.rs lines 121-147) stores the configuration and,
\* if the api section changed, takes the client write lock, for which it
\* waits while a with_client call holds the read lock
RecvReloadApi(new_api) ==
  /\ rt_pc = "idle"
  /\ reload_rx # <<>>
  /\ config' = recv(reload_rx).msg
  /\ reload_rx' = recv(reload_rx).rest
  /\ api' = new_api
  /\ rt_pc' = IF api # new_api /\ locks["client"] # {} THEN "update_config"
              ELSE "reconcile"
  /\ last' = NoStep
  /\ UNCHANGED <<service, poisoned, reload_tx, locks, applied, automation_tasks, last_messages, tasks,
                 sends, fired>>

\* update_config, lines 138-144: the client write lock is granted and the
\* client recreated
UpdateClient ==
  /\ rt_pc = "update_config"
  /\ locks["client"] = {}
  /\ rt_pc' = "reconcile"
  /\ last' = NoStep
  /\ UNCHANGED <<service, poisoned, reload_tx, api, locks, reload_rx, config, applied, automation_tasks,
                 last_messages, tasks, sends, fired>>

\* ------------------------------------------- update_config and its errors
\* the std::sync::RwLocks of the shared state: SharedAppState.0,
\* AppState.config, AppState.client
StdLocks == {"app_state", "config", "client"}

\* a thread that shares the state panics while it holds the write guard of
\* lock l (update_api, with_config_mut, update_config): l is poisoned and
\* every later read() or write() of it returns Err
Poison(l) ==
  /\ l \notin poisoned
  /\ poisoned' = poisoned \cup {l}
  /\ last' = NoStep
  /\ UNCHANGED <<service, reload_tx, api, locks, reload_rx, config, applied, rt_pc,
                 automation_tasks, last_messages, tasks, sends, fired>>

\* SharedAppState::update_config, app_state.rs lines 121-147: each lock
\* error is returned with `?`; the client lock is only taken if the api
\* section changed, after the configuration has been replaced
update_config(p, cfg, a, new_cfg, new_api) ==
  IF "app_state" \in p \/ "config" \in p
  THEN [ok |-> FALSE, config |-> cfg, api |-> a]
  ELSE IF a # new_api /\ "client" \in p
  THEN [ok |-> FALSE, config |-> new_cfg, api |-> new_api]
  ELSE [ok |-> TRUE, config |-> new_cfg, api |-> new_api]

\* mutant: the error of update_config is logged and the reload goes on
HandleConfigReload_ignoring(new_api) ==
  /\ rt_pc = "idle"
  /\ reload_rx # <<>>
  /\ LET r == update_config(poisoned, config, api, recv(reload_rx).msg, new_api)
     IN /\ config' = recv(reload_rx).msg
        /\ api' = new_api
        /\ rt_pc' = "reconcile"
        /\ last' = [op |-> "update_config", ok |-> r.ok]
  /\ reload_rx' = recv(reload_rx).rest
  /\ UNCHANGED <<service, poisoned, reload_tx, locks, applied, automation_tasks,
                 last_messages, tasks, sends, fired>>

\* run_service receives a snapshot whose api section is new_api, and
\* handle_config_reload begins (service.rs lines 167-171): if update_config
\* returns Err the handler logs and returns, otherwise it goes on to the
\* registry
HandleConfigReload(new_api) ==
  /\ rt_pc = "idle"
  /\ reload_rx # <<>>
  /\ LET r == update_config(poisoned, config, api, recv(reload_rx).msg, new_api)
     IN /\ config' = r.config
        /\ api' = r.api
        /\ rt_pc' = IF r.ok THEN "reconcile" ELSE "idle"
        /\ last' = [op |-> "update_config", ok |-> r.ok]
  /\ reload_rx' = recv(reload_rx).rest
  /\ UNCHANGED <<service, poisoned, reload_tx, locks, applied, automation_tasks,
                 last_messages, tasks, sends, fired>>

\* with_client, app_state.rs lines 76-83: Err if either lock is poisoned,
\* so that the watcher's call is not made
ClientResults ==
  IF poisoned \cap {"app_state", "client"} = {} THEN MessageResults
  ELSE {[ok |-> FALSE, items |-> <<>>]}

\* --------------------------------------------- lib.rs: load and deliver
\* the api sections a configuration file may hold
LoadApis == {ConfiguredApi, ApiConfig(DEFAULT_URL, ""), ApiConfig("", "test-token"),
             ApiConfig("", "")}

LoadSnapshots == {<<A_seen>>, <<B_imm1>>}

\* Config::load(): an error, or the configuration of the file
LoadResults ==
  {[ok |-> FALSE, api |-> ApiConfig_default, automations |-> <<>>]}
    \cup {[ok |-> TRUE, api |-> a, automations |-> cfg] :
            a \in LoadApis, cfg \in LoadSnapshots}

\* lib.rs run_service, lines 18-51: the state when the file watcher is set
\* up.  The loaded configuration is in the shared state, the service has
\* been created, and the configuration has been sent if its api section is
\* configured.  (A failed load makes run_service return at line 18.)
InitLoaded ==
  \E r \in {x \in LoadResults : x.ok} :
    /\ service = "alive"
    /\ poisoned = {}
    /\ reload_tx = "open"
    /\ locks = NoLocks
    /\ api = r.api
    /\ reload_rx = IF is_api_configured(r.api) THEN <<r.automations>> ELSE <<>>
    /\ sends = IF is_api_configured(r.api) THEN 1 ELSE 0
    /\ config = <<>>
    /\ applied = None
    /\ rt_pc = "idle"
    /\ automation_tasks = {}
    /\ last_messages = EmptyMap
    /\ tasks = [h \in Handles |-> FreeTask]
    /\ fired = [x \in FiredKeys |-> 0]
    /\ last = [op |-> "load", ok |-> TRUE, api |-> r.api,
               sent |-> is_api_configured(r.api)]

\* lib.rs run_service, lines 67-100: the configuration file changed; it is
\* loaded, and sent if the load succeeded and the api is configured
FileChanged(r) ==
  /\ reload_tx = "open"
  /\ sends < MaxSends
  /\ Len(reload_rx) < MaxQueue
  /\ LET sent == r.ok /\ is_api_configured(r.api)
     IN /\ reload_rx' = IF sent THEN Append(reload_rx, r.automations) ELSE reload_rx
        /\ sends' = IF sent THEN sends + 1 ELSE sends
        /\ last' = [op |-> "load", ok |-> r.ok, api |-> r.api, sent |-> sent]
  /\ UNCHANGED <<service, poisoned, reload_tx, api, locks, config, applied, rt_pc,
                 automation_tasks, last_messages, tasks, fired>>

\* ------------------------------------------------- Drop for the service
\* for task in tasks.iter() { task.handle.abort(); }
drop_abort(reg, ts) ==
  [h \in Handles |-> IF \E e \in reg : e.handle = h THEN abort(ts[h]) ELSE ts[h]]

\* impl Drop for NotificationService, lines 93-102: try_read on the registry
\* lock.  With the guard every registered task is aborted; without it (a
\* reconciliation holds the write lock of lines 214, 229, 266 or 342)
\* nothing is done.  The registry is not cleared, and the task spawned by
\* new (lines 119-129) holds its own clones of the Arcs and runs on.
Drop ==
  /\ service = "alive"
  /\ service' = "dropped"
  /\ \/ tasks' = drop_abort(automation_tasks, tasks)
     \/ rt_pc = "reconcile" /\ tasks' = tasks
  /\ last' = [op |-> "drop"]
  /\ UNCHANGED <<poisoned, reload_tx, api, locks, reload_rx, config, applied, rt_pc,
                 automation_tasks, last_messages, sends, fired>>

\* ---------------------------------------------------------- specifications
ReconcileSnapshots ==
  SnapshotsOf({A_seen, A_off, A_timed, A_nolimit, A_imm},
              {B_imm, B_seen, B_noloop, B_nochat})

NextReconcile ==
  \/ \E cfg \in ReconcileSnapshots : SendInitial(cfg)
  \/ \E cfg \in ReconcileSnapshots : SendReload(cfg)
  \/ RecvReload
  \/ Reconcile
  \/ PruneCache

SpecReconcile == Init /\ [][NextReconcile]_vars

LoopSnapshots == {<<A_seen>>, <<A_answer>>, <<A_timed>>, <<A_nolimit>>}

NextLoop ==
  \/ \E cfg \in LoopSnapshots : SendInitial(cfg)
  \/ \E cfg \in LoopSnapshots : SendReload(cfg)
  \/ RecvReload
  \/ Reconcile
  \/ PruneCache
  \/ Tick
  \/ \E h \in Handles : LoopStart(h)
  \/ \E h \in Handles : Wake(h)
  \/ \E h \in Handles : LoopCheckChat(h)

SpecLoop == Init /\ [][NextLoop]_vars

\* snapshots with two enabled Immediate rules that both contain chat c1
ImmediateSnapshots == {<<A_imm, B_imm>>, <<A_imm, B_imm1>>, <<B_imm, A_imm>>}

NextImmediate ==
  \/ \E cfg \in ImmediateSnapshots : SendInitial(cfg)
  \/ \E cfg \in ImmediateSnapshots : SendReload(cfg)
  \/ RecvReload
  \/ Reconcile
  \/ PruneCache
  \/ \E h \in Handles : ImmStart(h)
  \/ \E h \in Handles : Wake(h)
  \/ \E h \in Handles : ImmPoll(h)
  \/ \E h \in Handles : ImmFire(h)

SpecImmediate == Init /\ [][NextImmediate]_vars

Snapshots == {<<A_seen, B_imm>>, <<A_timed, B_imm>>, <<A_answer, B_imm>>}

Next ==
  \/ \E cfg \in Snapshots : SendInitial(cfg)
  \/ RecvReload
  \/ Reconcile
  \/ PruneCache
  \/ Tick
  \/ \E h \in Handles : LoopStart(h)
  \/ \E h \in Handles : ImmStart(h)
  \/ \E h \in Handles : Wake(h)
  \/ \E h \in Handles : LoopCheckChat(h)
  \/ \E h \in Handles : ImmPoll(h)
  \/ \E h \in Handles : ImmFire(h)

Spec == Init /\ [][Next]_vars

\* the immediate watcher with its calls and locks, under reloads that may
\* change the api section
LockSnapshots == {<<B_imm>>, <<A_imm>>}

NextLocks ==
  \/ \E cfg \in LockSnapshots : SendInitial(cfg)
  \/ \E cfg \in LockSnapshots : SendReload(cfg)
  \/ \E a \in ReloadApis : RecvReloadApi(a)
  \/ UpdateClient
  \/ Reconcile
  \/ PruneCache
  \/ \E h \in Handles : ImmStart(h)
  \/ \E h \in Handles : Wake(h)
  \/ \E h \in Handles : ImmCall(h)
  \/ \E h \in Handles : ImmReturn(h)
  \/ \E h \in Handles : ImmAcquire(h)
  \/ \E h \in Handles : ImmCheck(h)
  \/ \E h \in Handles : ImmFire(h)

SpecLocks == Init /\ [][NextLocks]_vars

\* both kinds of watcher under reloads that cancel them
CancelSnapshots == {<<A_seen, B_imm1>>, <<B_imm1>>}

NextCancel ==
  \/ \E cfg \in CancelSnapshots : SendInitial(cfg)
  \/ \E cfg \in CancelSnapshots : SendReload(cfg)
  \/ RecvReload
  \/ Reconcile
  \/ PruneCache
  \/ \E h \in Handles : LoopStart(h)
  \/ \E h \in Handles : ImmStart(h)
  \/ \E h \in Handles : Wake(h)
  \/ \E h \in Handles : LoopCheckChat(h)
  \/ \E h \in Handles : ImmPoll(h)
  \/ \E h \in Handles : ImmFire(h)

SpecCancel == Init /\ [][NextCancel]_vars

\* a chat that moves between an Immediate rule and a Loop rule
ScopeSnapshots == {<<A_imm>>, <<A_seen>>}

NextScope ==
  \/ \E cfg \in ScopeSnapshots : SendInitial(cfg)
  \/ \E cfg \in ScopeSnapshots : SendReload(cfg)
  \/ RecvReload
  \/ Reconcile
  \/ PruneCache
  \/ \E h \in Handles : LoopStart(h)
  \/ \E h \in Handles : ImmStart(h)
  \/ \E h \in Handles : Wake(h)
  \/ \E h \in Handles : LoopCheckChat(h)
  \/ \E h \in Handles : ImmPoll(h)
  \/ \E h \in Handles : ImmFire(h)

SpecScope == Init /\ [][NextScope]_vars

\* one ForATime watcher over a chat that receives several new messages
WindowSnapshots == {<<A_timed>>, <<A_nolimit>>}

NextWindow ==
  \/ \E cfg \in WindowSnapshots : SendInitial(cfg)
  \/ RecvReload
  \/ Reconcile
  \/ PruneCache
  \/ Tick
  \/ \E h \in Handles : LoopStart(h)
  \/ \E h \in Handles : Wake(h)
  \/ \E h \in Handles : LoopCheckChatOf(h, WindowResults, {"success"})

SpecWindow == Init /\ [][NextWindow]_vars

\* rules with focus and sound whose focus_app calls may fail
FocusSnapshots == {<<A_seen>>, <<A_timed_focus>>, <<A_imm>>}

NextFocus ==
  \/ \E cfg \in FocusSnapshots : SendInitial(cfg)
  \/ RecvReload
  \/ Reconcile
  \/ PruneCache
  \/ Tick
  \/ \E h \in Handles : LoopStart(h)
  \/ \E h \in Handles : ImmStart(h)
  \/ \E h \in Handles : Wake(h)
  \/ \E h \in Handles : LoopCheckChatOf(h, MessageResults, FocusResults)
  \/ \E h \in Handles : ImmPoll(h)
  \/ \E h \in Handles : ImmFireOf(h, FocusResults)

SpecFocus == Init /\ [][NextFocus]_vars

\* two Loop rules that reference the same chat, beside or after an
\* Immediate rule for that chat
PrivateSnapshots == {<<A_imm, B_seen1>>}

PrivateResults ==
  {[ok |-> FALSE, items |-> <<>>]}
    \cup {[ok |-> TRUE, items |-> <<Message(k, None)>>] : k \in 1..MaxKey}

NextPrivate ==
  \/ \E cfg \in PrivateSnapshots : SendInitial(cfg)
  \/ SendReload(<<A_seen, B_seen1>>)
  \/ RecvReload
  \/ Reconcile
  \/ PruneCache
  \/ \E h \in Handles : LoopStart(h)
  \/ \E h \in Handles : ImmStart(h)
  \/ \E h \in Handles : Wake(h)
  \/ \E h \in Handles : LoopCheckChatOf(h, PrivateResults, {"success"})
  \/ \E h \in Handles : ImmPoll(h)
  \/ \E h \in Handles : ImmFire(h)

SpecPrivate == Init /\ [][NextPrivate]_vars

\* is_api_configured over the api sections
NextApi ==
  \/ CheckApi
  \/ \E u \in Urls, t \in Tokens : update_api(u, t)

SpecApi == InitApi /\ [][NextApi]_vars

\* the service until after the reload channel is closed
CloseSnapshots == {<<A_seen, B_imm1>>}

WatcherStep(h) ==
  \/ LoopStart(h)
  \/ ImmStart(h)
  \/ Wake(h)
  \/ LoopCheckChat(h)
  \/ ImmPoll(h)
  \/ ImmFire(h)

NextClose ==
  \/ \E cfg \in CloseSnapshots : SendInitial(cfg)
  \/ DropSender
  \/ RecvReload
  \/ RecvClosed
  \/ Reconcile
  \/ PruneCache
  \/ \E h \in Handles : WatcherStep(h)

\* the tokio scheduler runs every task that is ready
SpecClose ==
  Init /\ [][NextClose]_vars /\ \A h \in Handles : WF_vars(WatcherStep(h))

\* watchers polling several chats, observed over many iterations until a
\* reload with no rule stops them
PollSnapshots == {<<B_seen>>, <<A_timed>>, <<B_imm>>, <<B_noloop>>}

NextPoll ==
  \/ \E cfg \in PollSnapshots : SendInitial(cfg)
  \/ SendReload(<<>>)
  \/ RecvReload
  \/ Reconcile
  \/ PruneCache
  \/ Tick
  \/ \E h \in Handles : WatcherStep(h)

\* the tokio scheduler runs every task that is ready
SpecPoll ==
  Init /\ [][NextPoll]_vars /\ \A h \in Handles : WF_vars(WatcherStep(h))

\* ------------------------------------------------------------------ claims
IsEnabledRule(a) == a.enabled
EnabledRules(cfg) == SelectSeq(cfg, IsEnabledRule)

RegistryIds == {e.automation_id : e \in automation_tasks}
RegistryRuleIds == RegistryIds \ {IMMEDIATE_WATCHER}
RegistryHandles == {e.handle : e \in automation_tasks}
Sentinels == {e \in automation_tasks : e.automation_id = IMMEDIATE_WATCHER}

\* the union of chat ids over the enabled Immediate rules of a snapshot
ImmediateUnion(cfg) ==
  {c \in ChatSet : \E n \in 1..Len(cfg) :
     cfg[n].enabled /\ cfg[n].automation_type = "Immediate" /\ c \in Range(cfg[n].chat_ids)}

EnabledLoopIds(cfg) ==
  {cfg[n].id : n \in {m \in 1..Len(cfg) : cfg[m].enabled /\ cfg[m].automation_type = "Loop"}}

\* the registry part of a reconciliation is done for the stored snapshot
Reconciled == rt_pc \notin {"update_config", "reconcile"}

\* the step that reconciles the registry with a snapshot whose enabled rules
\* equal those of the snapshot already applied
SameSnapshotReconcile ==
  /\ rt_pc = "reconcile"
  /\ rt_pc' = "prune"
  /\ applied # None
  /\ EnabledRules(applied[1]) = EnabledRules(config)

\* C1 as stated: reconciling with the snapshot already applied cancels no
\* watcher and starts none; the registry and every task are unchanged.
C1_ReloadIsNoOp ==
  [][SameSnapshotReconcile =>
       automation_tasks' = automation_tasks /\ tasks' = tasks]_vars

\* C1 amended: reconciling with the snapshot already applied keeps the set
\* of rule ids that have a watcher entry, but it is a restart and not a
\* no-op: every watcher registered before is cancelled and removed, and
\* every entry registered afterwards is a newly spawned task.
C1_ReloadRestarts ==
  [][SameSnapshotReconcile =>
       /\ RegistryRuleIds' = RegistryRuleIds
       /\ automation_tasks' \cap automation_tasks = {}
       /\ \A e \in automation_tasks :
            tasks'[e.handle].kind = "free" \/ tasks'[e.handle].aborted
       /\ \A e \in automation_tasks' :
            tasks'[e.handle].pc = "start" /\ ~tasks'[e.handle].aborted]_vars

C1_Witness ==
  /\ rt_pc = "prune"
  /\ applied = Some(config)
  /\ RegistryRuleIds # {}
  /\ Sentinels # {}

\* C3: after every completed reconciliation the registry holds an
\* immediate-watcher sentinel entry iff the union of chat ids over the
\* enabled Immediate rules of the applied snapshot is non-empty.
C3_SentinelIffImmediateChats ==
  Reconciled => (Sentinels # {} <=> ImmediateUnion(config) # {})

\* C4: an immediate watcher left running by a reconciliation polls exactly
\* the union of chat ids over all enabled Immediate rules of the snapshot,
\* and there is one such watcher.
C4_ImmediateScope ==
  Reconciled =>
    /\ Cardinality(Sentinels) <= 1
    /\ \A e \in Sentinels :
         /\ tasks[e.handle].kind = "immediate"
         /\ Range(tasks[e.handle].chat_ids) = ImmediateUnion(config)
         /\ Len(tasks[e.handle].chat_ids) = Cardinality(ImmediateUnion(config))

\* Loop rule A (c1) removed, Immediate rule B (c1, c2) added
C4_Witness ==
  /\ rt_pc = "prune"
  /\ applied = Some(<<A_seen>>)
  /\ config = <<B_imm>>
  /\ RegistryIds = {IMMEDIATE_WATCHER}
  /\ \A e \in Sentinels : tasks[e.handle].chat_ids = <<"c1", "c2">>
  /\ \A h \in Handles : tasks[h].kind # "loop"

\* C5: after every completed reconciliation the non-sentinel ids of the
\* registry are the ids of the enabled Loop rules of the snapshot, and a
\* watcher that is not registered (its rule removed or disabled) has been
\* cancelled.
C5_RegistryMatchesLoopRules ==
  Reconciled =>
    /\ RegistryRuleIds = EnabledLoopIds(config)
    /\ \A h \in Handles :
         tasks[h].kind # "free" /\ h \notin RegistryHandles => tasks[h].aborted

\* rule A disabled while rule B stays
C5_Witness ==
  /\ rt_pc = "prune"
  /\ applied = Some(<<A_seen, B_seen>>)
  /\ config = <<A_off, B_seen>>
  /\ RegistryRuleIds = {"B"}

\* C6: an enabled Loop rule without loop_config gets no registry entry and
\* no task.
C6_MalformedRuleSkipped ==
  Reconciled =>
    \A n \in Enabled(config) :
      config[n].automation_type = "Loop" /\ config[n].loop_config = None
        => /\ config[n].id \notin RegistryIds
           /\ \A h \in Handles : tasks[h].kind = "loop" => tasks[h].automation # config[n]

\* C7: an enabled ForATime Loop rule without a time limit gets no registry
\* entry and no task.
C7_ForATimeWithoutLimitExcluded ==
  Reconciled =>
    \A n \in Enabled(config) :
      (/\ config[n].automation_type = "Loop"
       /\ config[n].loop_config # None
       /\ config[n].loop_config[1].until = "ForATime"
       /\ config[n].loop_config[1].time = None)
        => /\ config[n].id \notin RegistryIds
           /\ \A h \in Handles : tasks[h].kind = "loop" => tasks[h].automation # config[n]

\* the effects a rule is configured with
ConfiguredEffects(a) ==
  {k \in {"focus", "sound"} :
     \/ k = "focus" /\ a.focus_chat
     \/ k = "sound" /\ a.notification_sound \notin {None, Some("")}}

EffectKinds(es) == {es[n].kind : n \in 1..Len(es)}

Until(a) == a.loop_config[1].until

\* the step read both answers, found a newest message and found the chat
Evaluated(l) == l.mr.ok /\ l.cr.ok /\ l.mr.items # <<>> /\ l.cr.items # <<>>

C8_MessageSeenFollowsUnread ==
  last.op = "loop" /\ Until(last.automation) = "MessageSeen" /\ Evaluated(last) =>
    /\ last.notify = Some(last.cr.items[1].unread_count > 0)
    /\ EffectKinds(last.effects) =
         IF last.cr.items[1].unread_count > 0
         THEN ConfiguredEffects(last.automation) ELSE {}

\* a new message arrives in a chat that has nothing unread
C8_Witness ==
  /\ last.op = "loop"
  /\ Until(last.automation) = "MessageSeen"
  /\ Evaluated(last)
  /\ last.is_new
  /\ last.cr.items[1].unread_count = 0
  /\ last.notify = Some(FALSE)

WindowOf(cache, c) ==
  IF c \in DOMAIN cache THEN cache[c].notification_start_time ELSE None

\* C9: in a ForATime watcher with time limit L a new message opens the
\* chat's window; should_notify is true iff a window is open and younger
\* than L; an evaluation at age >= L clears the window; a closed window
\* stays closed until a new message is detected.
C9_WindowStep(h) ==
  LET a == tasks[h].automation
      c == last'.chat
      before == WindowOf(tasks[h].last_messages, c)
      open == IF last'.is_new THEN Some(0) ELSE before
  IN (/\ last'.op = "loop"
      /\ last'.task = h
      /\ tasks[h].kind = "loop"
      /\ tasks[h].pc = "run"
      /\ Until(a) = "ForATime"
      /\ a.loop_config[1].time # None) =>
       /\ last'.notify # None =>
            last'.notify[1] = (open # None /\ open[1] < a.loop_config[1].time[1])
       /\ last'.effects # <<>> <=> last'.notify = Some(TRUE)
       /\ tasks'[h].kind = "loop" =>
            WindowOf(tasks'[h].last_messages, c) =
              IF last'.notify # None /\ open # None
                 /\ open[1] >= a.loop_config[1].time[1]
              THEN None ELSE open

C9_ForATimeWindow == [][\A h \in Handles : C9_WindowStep(h)]_vars

\* an evaluation found the window at or beyond the time limit and closed it
C9_Witness ==
  /\ last.op = "loop"
  /\ last.expired
  /\ last.notify = Some(FALSE)

\* C10: with two enabled Immediate rules containing c1, each new message of
\* c1 makes each rule's configured effects fire exactly once: one watcher
\* detects it, that watcher fires both rules once, and no later poll and no
\* overlapping old or new watcher fires them again.
Pending(c, k) ==
  {h \in Handles : /\ tasks[h].kind = "immediate"
                   /\ tasks[h].pc = "fire"
                   /\ tasks[h].chat_ids[tasks[h].i] = c
                   /\ tasks[h].key = k}

C10_Once ==
  \A k \in 1..MaxKey :
    /\ fired[<<"A", "c1", k>>] <= 1
    /\ fired[<<"B", "c1", k>>] <= 1
    /\ Cardinality(Pending("c1", k)) <= 1
    /\ Pending("c1", k) # {} =>
         /\ fired[<<"A", "c1", k>>] = 0
         /\ fired[<<"B", "c1", k>>] = 0
         /\ "c1" \in DOMAIN last_messages
         /\ last_messages["c1"].sort_key >= k
    /\ Pending("c1", k) = {} => fired[<<"A", "c1", k>>] = fired[<<"B", "c1", k>>]

C10_FireStep ==
  \A h \in Handles :
    (tasks[h].kind = "immediate" /\ tasks[h].pc = "fire" /\ tasks'[h].pc # "fire"
     /\ tasks[h].chat_ids[tasks[h].i] = "c1") =>
      /\ last'.op = "fire"
      /\ last'.task = h
      /\ Len(last'.rules) = 2
      /\ \A id \in {"A", "B"} :
           /\ fired'[<<id, "c1", tasks[h].key>>] = fired[<<id, "c1", tasks[h].key>>] + 1
           /\ \E m \in 1..2, n \in 1..Len(config) :
                /\ last'.rules[m].id = id
                /\ config[n].id = id
                /\ EffectKinds(last'.rules[m].effects) = ConfiguredEffects(config[n])

C10_ExactlyOnce == []C10_Once /\ [][C10_FireStep]_vars

\* both rules have fired for a message while a cancelled watcher of the
\* previous configuration is still running beside the new one
C10_Witness ==
  /\ \E k \in 1..MaxKey : fired[<<"A", "c1", k>>] = 1 /\ fired[<<"B", "c1", k>>] = 1
  /\ \E h \in Handles : tasks[h].kind = "immediate" /\ tasks[h].aborted
  /\ \E h \in Handles : tasks[h].kind = "immediate" /\ ~tasks[h].aborted /\ tasks[h].pc # "start"

Stopped == rt_pc = "stopped"

Polls(h) == last.op \in {"loop", "immediate"} /\ last.task = h

\* C11: when the runtime observes the closed reload channel no watcher is
\* cancelled; every watcher registered by the last reconciliation stays
\* registered, alive and not aborted, and keeps polling.
C11_ClosureKeepsWatchers ==
  /\ [][Stopped' /\ ~Stopped =>
          automation_tasks' = automation_tasks /\ tasks' = tasks]_vars
  /\ [][Stopped => Stopped' /\ automation_tasks' = automation_tasks]_vars
  /\ [](Stopped => \A e \in automation_tasks :
                     /\ tasks[e.handle].kind \in {"loop", "immediate"}
                     /\ tasks[e.handle].pc \in {"start", "run", "fire", "sleep"}
                     /\ ~tasks[e.handle].aborted)
  /\ \A h \in Handles : [](Stopped /\ h \in RegistryHandles => <>Polls(h))

\* the runtime has left its loop and both watchers of the applied snapshot
\* have polled since
C11_Witness ==
  /\ Stopped
  /\ applied = Some(<<A_seen, B_imm1>>)
  /\ Cardinality(automation_tasks) = 2
  /\ \E h \in RegistryHandles : Polls(h)

IsPrefix(p, q) == Len(p) <= Len(q) /\ SubSeq(q, 1, Len(p)) = p

\* C12: snapshots are reconciled one at a time in the order sent: sends
\* append at the tail of the channel; a reconciliation begins only while the
\* runtime is idle and takes the oldest buffered snapshot; until its stops,
\* restarts, starts and cache pruning are done no snapshot is received and
\* the snapshot it works on is not replaced.
C12_InOrderOneAtATime ==
  /\ [][Len(reload_rx') > Len(reload_rx) => IsPrefix(reload_rx, reload_rx')]_vars
  /\ [][rt_pc = "idle" /\ rt_pc' # "idle" =>
          /\ reload_rx # <<>>
          /\ config' = Head(reload_rx)
          /\ reload_rx' = Tail(reload_rx)
          /\ rt_pc' = "reconcile"]_vars
  /\ [][rt_pc # "idle" =>
          /\ config' = config
          /\ IsPrefix(reload_rx, reload_rx')
          /\ rt_pc = "reconcile" => rt_pc' \in {"reconcile", "prune"}
          /\ rt_pc = "prune" => rt_pc' \in {"prune", "idle"}]_vars
  /\ [][applied' # applied => rt_pc = "prune" /\ rt_pc' = "idle" /\ applied' = Some(config)]_vars
  /\ [][automation_tasks' # automation_tasks => rt_pc = "reconcile" /\ rt_pc' = "prune"]_vars

\* the first snapshot is being reconciled while a different second one is
\* already waiting in the channel
C12_Witness ==
  /\ rt_pc = "prune"
  /\ applied = None
  /\ sends = 2
  /\ Len(reload_rx) = 1
  /\ reload_rx[1] # config
  /\ automation_tasks # {}

\* C13: is_api_configured is true iff both the token and the URL are
\* non-empty; it is false for the default configuration and true once only
\* the token of the default is set to a non-empty value.
C13_ApiConfiguredIffBothSet ==
  last.op = "is_api_configured" =>
    /\ last.result = (api.token # "" /\ api.url # "")
    /\ api = ApiConfig("http://localhost:23373", "") => last.result = FALSE
    /\ api.url = ApiConfig_default.url /\ api.token # "" => last.result = TRUE

\* the default configuration with only its token set has been evaluated
C13_Witness ==
  /\ last.op = "is_api_configured"
  /\ api = [ApiConfig_default EXCEPT !.token = "test-token"]
  /\ last.result

ReconcileStep == rt_pc = "reconcile" /\ rt_pc' = "prune"

IsForATime(t) ==
  /\ t.kind = "loop"
  /\ t.automation.loop_config # None
  /\ Until(t.automation) = "ForATime"

\* the step in which Loop task h handles one chat
LoopStepOf(h) ==
  /\ tasks[h].kind = "loop"
  /\ tasks[h].pc = "run"
  /\ last'.op = "loop"
  /\ last'.task = h

\* every surviving enabled Loop rule gets a new watcher with empty per-chat
\* state under its id, and the old watcher is cancelled
SurvivorsRestartFresh ==
  ReconcileStep =>
    \A e \in automation_tasks :
      e.automation_id \in EnabledLoopIds(config) =>
        /\ tasks'[e.handle].kind = "free" \/ tasks'[e.handle].aborted
        /\ \E f \in automation_tasks' :
             /\ f.automation_id = e.automation_id
             /\ f.handle # e.handle
             /\ tasks'[f.handle].kind = "loop"
             /\ tasks'[f.handle].pc = "start"
             /\ ~tasks'[f.handle].aborted
             /\ tasks'[f.handle].last_messages = EmptyMap
             /\ tasks'[f.handle].automation.id = e.automation_id
             /\ \E n \in 1..Len(config) : config[n] = tasks'[f.handle].automation

C16_NoNewIterationAfterCancel ==
  /\ [](\A h \in Handles :
          tasks[h].aborted =>
            /\ tasks[h].pc \in {"run", "fire"}
            /\ h \notin RegistryHandles)
  /\ [][\A e \in automation_tasks \ automation_tasks' :
          tasks'[e.handle].kind = "free" \/ tasks'[e.handle].aborted]_vars
  /\ [][\A h \in Handles :
          tasks[h].aborted =>
            \/ tasks'[h] = tasks[h]
            \/ tasks'[h].kind = "free"
            \/ /\ tasks'[h].aborted
               /\ tasks'[h].kind = tasks[h].kind
               /\ \/ tasks'[h].i > tasks[h].i
                  \/ /\ tasks'[h].i = tasks[h].i
                     /\ tasks[h].pc = "run"
                     /\ tasks'[h].pc = "fire"]_vars

\* a Loop watcher and the immediate watcher were both cancelled inside an
\* iteration, which they are finishing
C16_Witness ==
  /\ \E h \in Handles : tasks[h].kind = "loop" /\ tasks[h].aborted
  /\ \E h \in Handles : tasks[h].kind = "immediate" /\ tasks[h].aborted /\ tasks[h].pc = "fire"

\* C15: a watcher that reconciliation has cancelled writes no entry of the
\* shared cache and fires no effect in any later step of its own, also when
\* it was cancelled inside a list_messages call.
C15_CancelledWatcherIsSilent ==
  [][\A h \in Handles :
       tasks[h].aborted /\ tasks'[h] # tasks[h] =>
         /\ last_messages' = last_messages
         /\ fired' = fired]_vars

\* C17: a watcher inside a collaborator call holds none of the locks that
\* reconciliation acquires, and reconciliation is never waiting for a lock
\* while a call is in flight.
C17_NoLockAcrossCall ==
  /\ ~(rt_pc = "update_config" /\ \E h \in Handles : tasks[h].pc = "call")
  /\ \A h \in Handles :
       tasks[h].pc = "call" => \A l \in LockNames : h \notin locks[l]

\* C18: the lock on the shared cache is held by an immediate watcher only
\* across the check-and-update of one entry: it is taken after list_messages
\* has returned and with_client has released its guards, at most one task
\* holds it, and the step that checks the entry releases it in every branch
\* (first sight, not newer, newer), so no call or effect runs under it.
C18_CacheLockOnlyAcrossCheck ==
  /\ [](/\ Cardinality(locks["cache"]) <= 1
        /\ \A h \in locks["cache"] :
             tasks[h].kind = "immediate" /\ tasks[h].pc = "locked")
  /\ [][\A h \in locks'["cache"] \ locks["cache"] :
          /\ tasks[h].pc \in {"call", "lock"}
          /\ h \notin locks'["client"] \cup locks'["app_state"]]_vars
  /\ [][\A h \in locks["cache"] :
          tasks'[h].pc # "locked" =>
            /\ h \notin locks'["cache"]
            /\ last'.op = "immediate" /\ last'.task = h]_vars
  /\ [][fired' # fired => locks'["cache"] = locks["cache"]]_vars

\* the newer branch: the entry was updated under the lock, the lock is free
\* again and the effects are still to be fired
C18_Witness ==
  /\ last.op = "immediate"
  /\ last.is_new
  /\ tasks[last.task].pc = "fire"
  /\ locks["cache"] = {}

\* C19: when the immediate watcher finds the newest sort key of a chat
\* greater than the cached one, the step that decides to fire has already
\* stored the new key in the chat's cache entry and has fired nothing; the
\* effects are fired only by a later step of that task.
C19_CacheUpdatedBeforeEffects ==
  /\ [][\A h \in Handles :
          tasks[h].pc # "fire" /\ tasks'[h].pc = "fire" =>
            LET chat_id == tasks'[h].chat_ids[tasks'[h].i]
            IN /\ chat_id \in DOMAIN last_messages
               /\ last_messages[chat_id].sort_key < tasks'[h].key
               /\ chat_id \in DOMAIN last_messages'
               /\ last_messages'[chat_id].sort_key = tasks'[h].key
               /\ fired' = fired]_vars
  /\ [][(\E x \in FiredKeys : fired'[x] > fired[x]) =>
          /\ last'.op = "fire"
          /\ tasks[last'.task].pc = "fire"
          /\ last_messages' = last_messages]_vars

\* a task is about to fire for a message whose key is already in the cache
\* and for which nothing has been fired
C19_Witness ==
  \E h \in Handles :
    /\ tasks[h].kind = "immediate"
    /\ tasks[h].pc = "fire"
    /\ LET chat_id == tasks[h].chat_ids[tasks[h].i]
       IN /\ chat_id \in DOMAIN last_messages
          /\ last_messages[chat_id].sort_key = tasks[h].key
          /\ \A x \in FiredKeys : x[2] = chat_id /\ x[3] = tasks[h].key => fired[x] = 0

\* C20: the step that completes a reconciliation leaves in the shared cache
\* no entry for a chat that no enabled rule of the applied snapshot
\* references, and keeps the entries of the referenced chats as they were.
C20_PrunedAtCompletion ==
  [][rt_pc = "prune" /\ rt_pc' = "idle" =>
       /\ applied' = Some(config')
       /\ DOMAIN last_messages' \subseteq all_tracked_chat_ids(config')
       /\ DOMAIN last_messages' = DOMAIN last_messages \cap all_tracked_chat_ids(config')
       /\ \A c \in DOMAIN last_messages' : last_messages'[c] = last_messages[c]]_vars

\* a reconciliation has just completed by removing an entry while keeping
\* another one
C20_Witness ==
  /\ rt_pc = "idle"
  /\ last.op = "prune"
  /\ last.removed # {}
  /\ DOMAIN last_messages # {}
  /\ applied = Some(config)

\* C21: when a reconciliation completes, every key of the shared cache is a
\* chat id of some enabled Immediate rule of the applied snapshot.
C21_CacheScopedToImmediate ==
  [][rt_pc = "prune" /\ rt_pc' = "idle" =>
       DOMAIN last_messages' \subseteq ImmediateUnion(config')]_vars

\* the position of a task after it has handled chat i of its iteration: the
\* next chat of the same iteration, or the sleep before the next iteration
\* (a cancelled task is dropped at that sleep)
GoesOn(h) ==
  IF tasks[h].i < Len(tasks[h].chat_ids)
  THEN tasks'[h].pc = "run" /\ tasks'[h].i = tasks[h].i + 1
  ELSE IF tasks[h].aborted THEN tasks'[h].kind = "free"
  ELSE tasks'[h].pc = "sleep" /\ tasks'[h].kind = tasks[h].kind

\* C22: a collaborator error is local to the chat and the iteration: a Loop
\* watcher step in which list_messages or list_chats failed, and an
\* immediate watcher step in which list_messages failed, leaves the chat's
\* cache entry as it was and fires nothing, the watcher goes on to the next
\* chat of the iteration or to its sleep, and a sleeping watcher that is not
\* cancelled begins its next iteration.
C22_ErrorsAreLocal ==
  /\ [][last'.op = "loop" /\ last' # last /\ (~last'.mr.ok \/ ~last'.cr.ok) =>
          LET h == last'.task
          IN /\ last'.effects = <<>>
             /\ last'.notify = None
             /\ tasks'[h].kind = "loop" => tasks'[h].last_messages = tasks[h].last_messages
             /\ GoesOn(h)]_vars
  /\ [][last'.op = "immediate" /\ last' # last /\ ~last'.mr.ok =>
          LET h == last'.task
          IN /\ last_messages' = last_messages
             /\ fired' = fired
             /\ GoesOn(h)]_vars
  /\ \A h \in Handles :
       [](tasks[h].pc = "sleep" /\ tasks[h].chat_ids # <<>> =>
            <>(tasks[h].pc = "run" \/ tasks[h].kind = "free"))

\* list_chats failed for the first chat of a Loop watcher that had already
\* seen the chat; the second chat of the iteration is still to be polled
C22_Witness ==
  /\ last.op = "loop"
  /\ last.mr.ok /\ last.mr.items # <<>> /\ ~last.cr.ok
  /\ tasks[last.task].pc = "run"
  /\ tasks[last.task].i = 2
  /\ last.chat \in DOMAIN tasks[last.task].last_messages
  /\ tasks[last.task].last_messages[last.chat].sort_key < last.mr.items[1].sort_key

\* C23: in every step of an Answer watcher that found a newest message and
\* found the chat in the chat list, should_notify is true exactly when the
\* newest message's is_sender flag is Some(false), or the flag is None and
\* the chat's unread count is positive; the configured effects fire exactly
\* then.
C23_AnswerFollowsSender ==
  last.op = "loop" /\ Until(last.automation) = "Answer" /\ Evaluated(last) =>
    LET is_sender == last.mr.items[1].is_sender
        unread == last.cr.items[1].unread_count
        expected == \/ is_sender = Some(FALSE)
                    \/ is_sender = None /\ unread > 0
    IN /\ last.notify = Some(expected)
       /\ EffectKinds(last.effects) =
            IF expected THEN ConfiguredEffects(last.automation) ELSE {}

\* the local user sent the newest message of a chat that still has unread
\* messages: the Answer watcher does not notify
C23_Witness ==
  /\ last.op = "loop"
  /\ Until(last.automation) = "Answer"
  /\ Evaluated(last)
  /\ last.mr.items[1].is_sender = Some(TRUE)
  /\ last.cr.items[1].unread_count > 0
  /\ last.notify = Some(FALSE)

\* C24: in a step of a ForATime watcher that read a newest message,
\* is_new_message is true exactly when the chat has a cached sort key and
\* the newest sort key is greater; such a step stores the new key and sets
\* the window start to the current time, whether or not a window was open,
\* and with a time limit and the chat in the chat list it notifies, so the
\* limit counts from the latest new message.
C24_NewMessageRestartsWindow ==
  [][\A h \in Handles :
       LoopStepOf(h) /\ IsForATime(tasks[h]) /\ last'.mr.ok /\ last'.cr.ok
       /\ last'.mr.items # <<>> =>
         LET cache == tasks[h].last_messages
             c == last'.chat
             key == last'.mr.items[1].sort_key
         IN /\ last'.is_new <=> (c \in DOMAIN cache /\ cache[c].sort_key < key)
            /\ last'.is_new /\ tasks'[h].kind = "loop" =>
                 /\ tasks'[h].last_messages[c].sort_key = key
                 /\ tasks'[h].last_messages[c].notification_start_time = Some(0)
            /\ last'.is_new /\ last'.cr.items # <<>>
               /\ tasks[h].automation.loop_config[1].time # None =>
                 last'.notify = Some(TRUE) /\ last'.effects # <<>>]_vars

\* a second new message arrived while the window of the first was open and
\* one tick old: the window starts again
C24_Witness ==
  /\ last.op = "loop"
  /\ last.is_new
  /\ last.window # None
  /\ last.window[1] > 0
  /\ last.notify = Some(TRUE)
  /\ tasks[last.task].kind = "loop"
  /\ tasks[last.task].last_messages[last.chat].notification_start_time = Some(0)

\* a Loop watcher whose rule has a loop policy and that has not been
\* cancelled
LiveLoop(t) == t.kind = "loop" /\ t.automation.loop_config # None /\ ~t.aborted

\* C25: a Loop watcher of a rule with a loop policy has no exit of its own:
\* whatever the collaborators answer and whatever should_notify yields, only
\* the step of a reconciliation ends it, and as long as it is not cancelled
\* it polls its chats again and again.
C25_LoopRunsUntilCancelled ==
  /\ [][\A h \in Handles :
          LiveLoop(tasks[h]) /\ ~(rt_pc = "reconcile" /\ rt_pc' = "prune") =>
            /\ LiveLoop(tasks'[h])
            /\ tasks'[h].automation = tasks[h].automation
            /\ tasks'[h].pc \in {"start", "run", "sleep"}]_vars
  /\ \A h \in Handles :
       []<>(\/ ~(LiveLoop(tasks[h]) /\ tasks[h].chat_ids # <<>>)
            \/ last.op = "loop" /\ last.task = h)

\* a watcher that is not cancelled sleeps after an iteration, not its first,
\* whose last chat failed
C25_Witness ==
  /\ last.op = "loop"
  /\ ~last.mr.ok
  /\ LiveLoop(tasks[last.task])
  /\ tasks[last.task].pc = "sleep"
  /\ last.chat \in DOMAIN tasks[last.task].last_messages

\* the rule has a focus and a non-empty sound path configured
FocusAndSound(a) == ConfiguredEffects(a) = {"focus", "sound"}

\* C26: when should_notify holds and the rule has focus and a non-empty
\* sound path, a focus_app call that fails or reports no success is followed
\* by the sound in the same step; the chat's cache entry and window are what
\* the new-message check made them, and the watcher goes on.  The same holds
\* for every rule the immediate watcher fires.
C26_FocusFailureKeepsSound ==
  /\ [][\A h \in Handles :
          LoopStepOf(h) /\ last'.notify = Some(TRUE)
          /\ FocusAndSound(tasks[h].automation)
          /\ last'.focus \in {Some("no_success"), Some("error")} =>
            LET c == last'.chat
                cache == tasks[h].last_messages
                key == last'.mr.items[1].sort_key
            IN /\ EffectKinds(last'.effects) = {"focus", "sound"}
               /\ GoesOn(h)
               /\ tasks'[h].kind = "loop" =>
                    /\ tasks'[h].last_messages[c].sort_key =
                         IF last'.first \/ last'.is_new THEN key ELSE cache[c].sort_key
                    /\ tasks'[h].last_messages[c].notification_start_time =
                         IF last'.is_new /\ Until(tasks[h].automation) = "ForATime"
                         THEN Some(0) ELSE last'.window]_vars
  /\ [][last'.op = "fire" /\ last' # last /\ last'.focus # "success" =>
          /\ last_messages' = last_messages
          /\ GoesOn(last'.task)
          /\ \A m \in 1..Len(config) :
               (/\ config[m].enabled
                /\ config[m].automation_type = "Immediate"
                /\ last'.chat \in Range(config[m].chat_ids)
                /\ FocusAndSound(config[m])) =>
                 \E n \in 1..Len(last'.rules) :
                   /\ last'.rules[n].id = config[m].id
                   /\ EffectKinds(last'.rules[n].effects) = {"focus", "sound"}]_vars

\* the focus_app call of a ForATime watcher failed inside an open window; the
\* sound was played and the window is still open
C26_Witness ==
  /\ last.op = "loop"
  /\ Until(last.automation) = "ForATime"
  /\ last.focus = Some("error")
  /\ last.window # None
  /\ EffectKinds(last.effects) = {"focus", "sound"}
  /\ tasks[last.task].last_messages[last.chat].notification_start_time = last.window

\* C27: a Loop watcher step that read an empty message page does nothing: the
\* private map, with or without an entry for the chat, is as before and no
\* effect fires.  A step that read a message for a chat missing from the
\* list_chats page evaluates no policy and fires no effect, also when the
\* chat's ForATime window is open.
C27_NoMessageOrNoChatNoEffect ==
  [][\A h \in Handles :
       LoopStepOf(h) /\ last'.mr.ok /\ last'.cr.ok =>
         /\ last'.mr.items = <<>> =>
              /\ last'.effects = <<>>
              /\ last'.notify = None
              /\ tasks'[h].kind = "loop" =>
                   tasks'[h].last_messages = tasks[h].last_messages
         /\ last'.mr.items # <<>> /\ last'.cr.items = <<>> =>
              /\ last'.effects = <<>>
              /\ last'.notify = None
              /\ ~last'.expired]_vars

\* a ForATime watcher with an open window, younger than the time limit, read
\* a message for a chat that the chat list does not contain, and fired
\* nothing
C27_Witness ==
  /\ last.op = "loop"
  /\ Until(last.automation) = "ForATime"
  /\ last.automation.loop_config[1].time # None
  /\ last.mr.ok /\ last.mr.items # <<>>
  /\ last.cr.ok /\ last.cr.items = <<>>
  /\ last.window # None
  /\ last.window[1] < last.automation.loop_config[1].time[1]
  /\ last.effects = <<>>

\* C28: the registry changes only in the step of a reconciliation: no step
\* of a Loop watcher or of the immediate watcher, whether it polls, fires,
\* sleeps, returns or is dropped after its cancellation, adds, removes or
\* replaces an entry.
C28_RegistryOnlyByReconcile ==
  /\ [][automation_tasks' # automation_tasks =>
          rt_pc = "reconcile" /\ rt_pc' = "prune"]_vars
  /\ [][(\E h \in Handles : tasks'[h] # tasks[h]) /\ rt_pc' = rt_pc =>
          automation_tasks' = automation_tasks]_vars

\* a Loop task has returned by itself and its entry is still registered
C28_Witness ==
  \E e \in automation_tasks :
    /\ tasks[e.handle].kind = "loop"
    /\ tasks[e.handle].pc = "done"
    /\ rt_pc = "idle"

\* C29: notification_start_time is None in every entry of the private map of
\* a MessageSeen or Answer watcher and in every entry of the shared map of
\* the immediate watcher, in every reachable state; in a running Loop watcher
\* it becomes Some or None only in a step of a ForATime watcher.
C29_WindowOnlyUnderForATime ==
  /\ [](/\ \A h \in Handles :
             tasks[h].kind = "loop" /\ tasks[h].automation.loop_config # None
             /\ Until(tasks[h].automation) \in {"MessageSeen", "Answer"} =>
               \A c \in DOMAIN tasks[h].last_messages :
                 tasks[h].last_messages[c].notification_start_time = None
        /\ \A c \in DOMAIN last_messages :
             last_messages[c].notification_start_time = None)
  /\ [][\A h \in Handles : \A c \in ChatSet :
          (/\ tasks[h].kind = "loop" /\ tasks'[h].kind = "loop"
           /\ tasks'[h].automation = tasks[h].automation
           /\ (WindowOf(tasks'[h].last_messages, c) = None)
                # (WindowOf(tasks[h].last_messages, c) = None)) =>
            IsForATime(tasks[h]) /\ LoopStepOf(h) /\ last'.chat = c]_vars

\* a MessageSeen or Answer watcher has just stored a new message while the
\* shared map of the immediate watcher holds entries
C29_Witness ==
  /\ last.op = "loop"
  /\ last.is_new
  /\ Until(last.automation) \in {"MessageSeen", "Answer"}
  /\ tasks[last.task].kind = "loop"
  /\ last.chat \in DOMAIN tasks[last.task].last_messages
  /\ DOMAIN last_messages # {}

\* C30: a step of a Loop watcher leaves the shared map, what the immediate
\* watcher has fired and every other task as they were, and what it decides
\* depends on its private map alone: first observation and new message are
\* judged by the private entry of the chat, whatever the shared map or
\* another Loop watcher holds for the same chat.
C30_LoopMapIsPrivate ==
  [][\A h \in Handles :
       LoopStepOf(h) =>
         /\ last_messages' = last_messages
         /\ fired' = fired
         /\ \A g \in Handles \ {h} : tasks'[g] = tasks[g]
         /\ last'.mr.ok /\ last'.cr.ok /\ last'.mr.items # <<>> =>
              LET cache == tasks[h].last_messages
                  c == last'.chat
              IN /\ last'.first <=> c \notin DOMAIN cache
                 /\ last'.is_new <=>
                      (c \in DOMAIN cache
                         /\ cache[c].sort_key < last'.mr.items[1].sort_key)]_vars

\* a Loop watcher has just seen chat c1 for the first time while the shared
\* map and another Loop watcher's map hold an entry for c1
C30_Witness ==
  /\ last.op = "loop"
  /\ last.first
  /\ last.chat \in DOMAIN last_messages
  /\ \E g \in Handles \ {last.task} :
       /\ tasks[g].kind = "loop"
       /\ ~tasks[g].aborted
       /\ last.chat \in DOMAIN tasks[g].last_messages
       /\ tasks[g].last_messages[last.chat].sort_key # last.mr.items[1].sort_key

\* the service value is dropped while its run_service task and watchers run
DropSnapshots == {<<A_seen>>, <<A_imm>>}

NextDrop ==
  \/ \E cfg \in DropSnapshots : SendInitial(cfg)
  \/ \E cfg \in DropSnapshots : SendReload(cfg)
  \/ RecvReload
  \/ Reconcile
  \/ PruneCache
  \/ Drop
  \/ \E h \in Handles : WatcherStep(h)

SpecDrop == Init /\ [][NextDrop]_vars

\* a registered task that was neither dropped nor marked as aborted
Uncancelled(e) == tasks[e.handle].kind # "free" /\ ~tasks[e.handle].aborted

\* C31: once the NotificationService has been dropped, no watcher task of
\* the registry remains uncancelled, whatever the Runtime does afterwards.
C31_DropCancelsAll ==
  service = "dropped" => \A e \in automation_tasks : ~Uncancelled(e)

\* snapshots in which two enabled rules share an id, or a rule carries the
\* reserved id of the immediate watcher
IdSnapshots == {<<A_seen>>, <<A_seen, A_dup>>, <<A_imm, A_dup>>, <<B_imm1>>,
                <<S_seen>>, <<S_seen, B_imm1>>}

NextIds ==
  \/ \E cfg \in IdSnapshots : SendInitial(cfg)
  \/ \E cfg \in IdSnapshots : SendReload(cfg)
  \/ RecvReload
  \/ Reconcile
  \/ PruneCache
  \/ \E h \in Handles : WatcherStep(h)

SpecIds == Init /\ [][NextIds]_vars

EntriesOf(id) == {e \in automation_tasks : e.automation_id = id}

\* the ids that several enabled rules of a snapshot carry
SharedIds(cfg) ==
  {id \in new_automation_ids(cfg) :
     Cardinality({n \in Enabled(cfg) : cfg[n].id = id}) > 1}

\* C32: the registry never holds two entries with the same id, the reserved
\* id included; when several enabled rules of the reconciled snapshot share
\* an id, the registry holds one watcher for it if the rule kept for the id
\* is a Loop rule, and that watcher runs the kept rule.
C32_OneEntryPerId ==
  /\ \A id \in RegistryIds : Cardinality(EntriesOf(id)) = 1
  /\ Reconciled =>
       \A id \in SharedIds(config) \ {IMMEDIATE_WATCHER} :
         IF new_automations(config)[id].automation_type = "Loop"
         THEN \E e \in EntriesOf(id) :
                tasks[e.handle].automation = new_automations(config)[id]
         ELSE EntriesOf(id) = {}

\* a snapshot with two enabled Loop rules of id "A" has been reconciled
\* over a registry that already held a watcher for "A"
C32_Witness ==
  /\ Reconciled
  /\ rt_pc = "idle"
  /\ sends = 2
  /\ config = <<A_seen, A_dup>>
  /\ \E e \in EntriesOf("A") : tasks[e.handle].automation = A_dup
  /\ Cardinality(automation_tasks) = 1

\* C39: a reconciliation leaves, for every enabled Loop rule of its snapshot
\* (the watcher it has just started or restarted), a registered watcher of
\* that rule that is not cancelled, whatever the rule's id.
C39_BookkeepingSparesRuleWatchers ==
  [][ReconcileStep =>
       \A id \in new_automation_ids(config) :
         new_automations(config)[id].automation_type = "Loop" =>
           \E e \in automation_tasks' :
             /\ e.automation_id = id
             /\ tasks'[e.handle].kind = "loop"
             /\ tasks'[e.handle].automation = new_automations(config)[id]
             /\ ~tasks'[e.handle].aborted]_vars

\* reloads between snapshots whose Immediate rules cover chat c1 throughout
RestartInitial == {<<B_imm1>>, <<A_seen, B_imm1>>}

RestartReloads == {<<B_imm1>>, <<A_imm>>}

NextRestart ==
  \/ \E cfg \in RestartInitial : SendInitial(cfg)
  \/ \E cfg \in RestartReloads : SendReload(cfg)
  \/ RecvReload
  \/ Reconcile
  \/ PruneCache
  \/ \E h \in Handles : WatcherStep(h)

SpecRestart == Init /\ [][NextRestart]_vars

\* the reconciliation of a reload completes
ReloadCompletes == rt_pc = "prune" /\ rt_pc' = "idle" /\ applied # None

\* chat c is covered by an enabled Immediate rule before and after the
\* reload that completes, and has an entry in the shared cache
CoveredAcross(c) ==
  /\ ReloadCompletes
  /\ c \in ImmediateUnion(applied[1])
  /\ c \in ImmediateUnion(config)
  /\ c \in DOMAIN last_messages

\* a registered immediate watcher that polls c and is not cancelled
Watches(e, c) ==
  /\ e.automation_id = IMMEDIATE_WATCHER
  /\ tasks[e.handle].kind = "immediate"
  /\ ~tasks[e.handle].aborted
  /\ c \in Range(tasks[e.handle].chat_ids)

\* C33: when a reload completes for a chat c that an enabled Immediate rule
\* covers before and after it and that has a cache entry, the entry is kept
\* as it is and a new, uncancelled immediate watcher polling c is
\* registered; and a message newer than the entry is only ever detected by
\* a watcher that is not cancelled (the new one), so that the message that
\* arrives during the restart is detected by the new watcher.
C33_NoMessageLostAcrossRestart ==
  [][/\ \A c \in ChatSet :
          CoveredAcross(c) =>
            /\ c \in DOMAIN last_messages' /\ last_messages'[c] = last_messages[c]
            /\ \E e \in automation_tasks : Watches(e, c)
      /\ \A h \in Handles :
          (tasks[h].kind = "immediate" /\ tasks'[h].pc = "fire" /\ tasks[h].pc # "fire")
            => ~tasks[h].aborted]_vars

\* one step of the immediate watcher with its calls and lock acquisitions
LockedWatcherStep(h) ==
  \/ ImmStart(h)
  \/ Wake(h)
  \/ ImmCall(h)
  \/ ImmReturn(h)
  \/ ImmAcquire(h)
  \/ ImmCheck(h)
  \/ ImmFire(h)

NextLive ==
  \/ SendInitial(<<B_imm1>>)
  \/ SendReload(<<A_imm>>)
  \/ \E a \in ReloadApis : RecvReloadApi(a)
  \/ UpdateClient
  \/ Reconcile
  \/ PruneCache
  \/ \E h \in Handles : LockedWatcherStep(h)

\* the service with the watcher's locks under fair scheduling: run_service
\* and every watcher task are run when they are ready, every collaborator
\* call returns (ImmReturn), and a lock that is released again and again
\* is eventually granted to the Runtime that waits for it
SpecLive ==
  /\ Init /\ [][NextLive]_vars
  /\ WF_vars(\E a \in ReloadApis : RecvReloadApi(a))
  /\ WF_vars(Reconcile)
  /\ SF_vars(UpdateClient)
  /\ SF_vars(PruneCache)
  /\ \A h \in Handles : WF_vars(LockedWatcherStep(h))

\* the number of snapshots whose handle_config_reload has returned
Completed == sends - Len(reload_rx) - (IF rt_pc = "idle" THEN 0 ELSE 1)

\* C34: under fair scheduling and returning collaborator calls, every
\* snapshot placed on the reload channel is eventually fully reconciled:
\* again and again handle_config_reload has returned for all the snapshots
\* sent so far, having got past the client lock of update_config, the
\* registry lock and the cache lock of the prune.
C34_EverySnapshotReconciled == []<>(Completed = sends)

\* the reload of a snapshot with a changed api section has been fully
\* reconciled while a watcher is inside a collaborator call
C34_Witness ==
  /\ sends >= 2
  /\ Completed = sends
  /\ last.op = "prune"
  /\ api # ConfiguredApi
  /\ \E h \in Handles : tasks[h].pc = "call" /\ h \in locks["client"]

\* the immediate watcher with get_config and the effects as separate steps,
\* under reloads that remove a rule, change its kind or narrow its chats
FireInitial == {<<B_imm>>, <<A_imm, B_imm1>>}

FireReloads == {<<B_imm1>>, <<A_imm>>, <<A_seen, B_imm1>>}

NextFire ==
  \/ \E cfg \in FireInitial : SendInitial(cfg)
  \/ \E cfg \in FireReloads : SendReload(cfg)
  \/ RecvReload
  \/ Reconcile
  \/ PruneCache
  \/ \E h \in Handles : LoopStart(h)
  \/ \E h \in Handles : LoopCheckChat(h)
  \/ \E h \in Handles : ImmStart(h)
  \/ \E h \in Handles : Wake(h)
  \/ \E h \in Handles : ImmPoll(h)
  \/ \E h \in Handles : ImmGetConfig(h)
  \/ \E h \in Handles : ImmEffects(h)

SpecFire == Init /\ [][NextFire]_vars

\* rule n of cfg is enabled, Immediate and covers chat c
FiresFor(cfg, n, c) ==
  /\ cfg[n].enabled
  /\ cfg[n].automation_type = "Immediate"
  /\ c \in Range(cfg[n].chat_ids)

\* the ids of the rules whose effects the step has performed
FiredIds == {last'.rules[n].id : n \in 1..Len(last'.rules)}

EffectsStep(h) == tasks[h].pc = "effects" /\ tasks'[h].pc # "effects"

\* C35 as stated: every rule whose effects the immediate watcher performs
\* is enabled, Immediate and covers the chat in the configuration stored
\* when the effects are performed.
C35_FiresByStoredConfig ==
  [][\A h \in Handles :
       EffectsStep(h) =>
         \A id \in FiredIds :
           \E n \in 1..Len(config) :
             config[n].id = id /\ FiresFor(config, n, last'.chat)]_vars

\* C35, amended: the watcher clones the stored configuration once, when it
\* has detected the message, and performs the effects of exactly the rules
\* that are enabled, Immediate and cover the chat in that clone, whatever
\* snapshot the watcher was started under.
C35_FiresByConfigRead ==
  [][\A h \in Handles :
       /\ (tasks[h].pc = "fire" /\ tasks'[h].pc = "effects") => tasks'[h].config = config
       /\ EffectsStep(h) =>
            /\ last'.op = "fire" /\ last'.task = h
            /\ FiredIds =
                 {tasks[h].config[n].id :
                    n \in {m \in 1..Len(tasks[h].config) :
                             FiresFor(tasks[h].config, m, last'.chat)}}]_vars

\* a watcher started under the first snapshot has performed the effects of
\* a rule read from the second snapshot, stored but not yet reconciled
C35_Witness ==
  /\ last.op = "fire"
  /\ last.rules # <<>>
  /\ rt_pc = "reconcile"
  /\ applied # None
  /\ applied # Some(config)

\* reloads under poisoned locks of the shared state, with Loop watchers
StoreSnapshots == {<<A_seen>>, <<B_seen1>>}

NextStore ==
  \/ \E cfg \in StoreSnapshots : SendInitial(cfg)
  \/ \E cfg \in StoreSnapshots : SendReload(cfg)
  \/ \E a \in ReloadApis : HandleConfigReload(a)
  \/ Reconcile
  \/ PruneCache
  \/ \E l \in StdLocks : Poison(l)
  \/ \E h \in Handles : LoopStart(h)
  \/ \E h \in Handles : Wake(h)
  \/ \E h \in Handles : LoopCheckChatOf(h, ClientResults, {"success"})

SpecStore == Init /\ [][NextStore]_vars

\* handle_config_reload has been called and update_config has returned Err
StoreFails == last'.op = "update_config" /\ ~last'.ok

\* C36: a call of handle_config_reload in which update_config fails returns
\* at once: the registry, every watcher task and the shared cache are as
\* before the call, and no reconciliation of the snapshot follows.
C36_FailedStoreLeavesWatchers ==
  [][StoreFails =>
       /\ automation_tasks' = automation_tasks
       /\ tasks' = tasks
       /\ last_messages' = last_messages
       /\ rt_pc' = "idle"
       /\ applied' = applied]_vars

\* update_config has just failed for a reload while a watcher of the
\* applied snapshot is registered and has polled
C36_Witness ==
  /\ last.op = "update_config"
  /\ ~last.ok
  /\ rt_pc = "idle"
  /\ applied # None
  /\ \E e \in automation_tasks :
       tasks[e.handle].kind = "loop" /\ tasks[e.handle].pc \in {"run", "sleep"}

\* the service started from a loaded configuration and fed by file changes
NextLoad ==
  \/ \E r \in LoadResults : FileChanged(r)
  \/ \E a \in LoadApis : HandleConfigReload(a)
  \/ Reconcile
  \/ PruneCache
  \/ \E h \in Handles : WatcherStep(h)

SpecLoad == InitLoaded /\ [][NextLoad]_vars

\* the latest load did not give a configuration with both credentials
NotDeliverable == ~last.ok \/ last.api.token = "" \/ last.api.url = ""

\* C37: a configuration is put on the reload channel only by a load that
\* succeeded with a non-empty token and a non-empty URL, at startup and on
\* a file change alike; a load that failed or lacks a credential sends
\* nothing and leaves the channel, the stored configuration, the registry,
\* the watcher tasks and the shared cache as they are.
C37_OnlyConfiguredDelivered ==
  /\ [](last.op = "load" => (last.sent <=> ~NotDeliverable))
  /\ [](sends = 0 => reload_rx = <<>>)
  /\ [][Len(reload_rx') > Len(reload_rx) =>
          last'.op = "load" /\ last'.sent /\ sends' = sends + 1]_vars
  /\ [][last'.op = "load" /\ ~last'.sent =>
          UNCHANGED <<reload_rx, sends, config, api, applied, rt_pc,
                      automation_tasks, tasks, last_messages>>]_vars

\* a file change with an empty token has just been ignored while a watcher
\* of the applied configuration is polling
C37_Witness ==
  /\ last.op = "load"
  /\ last.ok
  /\ last.api.token = ""
  /\ ~last.sent
  /\ applied # None
  /\ \E e \in automation_tasks : tasks[e.handle].pc \in {"run", "sleep"}

\* C38: as long as a chat keeps its entry in the shared cache (no prune
\* removes it), the entry's sort key never decreases, and the entry only
\* changes by a check of the immediate watcher that replaces it with a
\* strictly greater sort key.
C38_SortKeyNeverDecreases ==
  [][\A c \in DOMAIN last_messages \cap DOMAIN last_messages' :
       /\ last_messages'[c].sort_key >= last_messages[c].sort_key
       /\ last_messages'[c] # last_messages[c] =>
            /\ last'.op = "immediate"
            /\ last'.chat = c
            /\ last_messages'[c].sort_key > last_messages[c].sort_key]_vars

\* a watcher has just checked a message older than the chat's cached one,
\* and the entry has stayed
C38_Witness ==
  /\ last.op = "immediate"
  /\ ~last.first
  /\ ~last.is_new
  /\ last.chat \in DOMAIN last_messages
  /\ last.mr.ok
  /\ last.mr.items # <<>>
  /\ last.mr.items[1].sort_key < last_messages[last.chat].sort_key

====
